---- MODULE Spec2Model ----
(***************************************************************************)
(* Verification model of SoftCopyRightDocGen.                              *)
(*                                                                         *)
(* Part 1: Scanner.scan_parallel (src/src/scanner.py): the concurrent,     *)
(* cancellable directory walk.  The main thread and every worker thread    *)
(* are processes whose program counters name source lines; the shared      *)
(* queue, the cancel flag, the result list, the counters and the throttle  *)
(* state are the variables.                                                *)
(*                                                                         *)
(* Text is modelled as sequences of character codes (ASCII), a path as the *)
(* sequence of its components below the scan root.                         *)
(***************************************************************************)
EXTENDS Integers, Sequences, FiniteSets, TLC

\* ------------------------------------------------------------------ bounds
\* Largest worker-pool size explored (max_workers ranges over 1..MaxWorkers).
MaxWorkers == 2
\* The clock reading at the start of the scan and the last reading explored,
\* in ticks of 100 ms.
StartTime == 1
MaxTime == 2
\* A worker reports progress when its scanned count is a multiple of this
\* number.  The source uses the literal 500 (scanner.py:247); the model scales
\* it down so that worker-issued callbacks happen on small trees.
ProgressEvery == 2

\* ------------------------------------------------------- program constants
\* MIN_CALLBACK_INTERVAL = 0.1 s, in ticks of 100 ms.
MIN_CALLBACK_INTERVAL == 1

DEFAULT_EXCLUDED_DIRS ==
    { <<110,111,100,101,95,109,111,100,117,108,101,115>>,   \* node_modules
      <<118,101,110,118>>,   \* venv
      <<101,110,118>>,   \* env
      <<46,118,101,110,118>>,   \* .venv
      <<46,103,105,116>>,   \* .git
      <<46,105,100,101,97>>,   \* .idea
      <<95,95,112,121,99,97,99,104,101,95,95>>,   \* __pycache__
      <<98,105,110>>,   \* bin
      <<111,98,106>>,   \* obj
      <<116,97,114,103,101,116>>,   \* target
      <<46,118,115,99,111,100,101>>,   \* .vscode
      <<98,117,105,108,100>>,   \* build
      <<100,105,115,116>>,   \* dist
      <<46,118,115>>,   \* .vs
      <<46,103,114,97,100,108,101>>,   \* .gradle
      <<46,115,118,110>>,   \* .svn
      <<46,104,103>>,   \* .hg
      <<98,111,119,101,114,95,99,111,109,112,111,110,101,110,116,115>>,   \* bower_components
      <<46,116,111,120>>,   \* .tox
      <<46,112,121,116,101,115,116,95,99,97,99,104,101>>,   \* .pytest_cache
      <<46,109,121,112,121,95,99,97,99,104,101>>,   \* .mypy_cache
      <<46,99,97,99,104,101>>,   \* .cache
      <<108,111,103,115>>,   \* logs
      <<108,111,103>> }   \* log

DEFAULT_EXCLUDED_EXTENSIONS ==
    { <<46,106,112,103>>,   \* .jpg
      <<46,106,112,101,103>>,   \* .jpeg
      <<46,112,110,103>>,   \* .png
      <<46,103,105,102>>,   \* .gif
      <<46,98,109,112>>,   \* .bmp
      <<46,105,99,111>>,   \* .ico
      <<46,115,118,103>>,   \* .svg
      <<46,101,120,101>>,   \* .exe
      <<46,100,108,108>>,   \* .dll
      <<46,115,111>>,   \* .so
      <<46,100,121,108,105,98>>,   \* .dylib
      <<46,98,105,110>>,   \* .bin
      <<46,112,100,102>>,   \* .pdf
      <<46,100,111,99>>,   \* .doc
      <<46,100,111,99,120>>,   \* .docx
      <<46,112,112,116>>,   \* .ppt
      <<46,112,112,116,120>>,   \* .pptx
      <<46,120,108,115>>,   \* .xls
      <<46,120,108,115,120>>,   \* .xlsx
      <<46,122,105,112>>,   \* .zip
      <<46,114,97,114>>,   \* .rar
      <<46,55,122>>,   \* .7z
      <<46,116,97,114>>,   \* .tar
      <<46,103,122>>,   \* .gz
      <<46,112,121,99>>,   \* .pyc
      <<46,112,121,111>>,   \* .pyo
      <<46,112,121,100>>,   \* .pyd
      <<46,99,108,97,115,115>>,   \* .class
      <<46,111>>,   \* .o
      <<46,97>>,   \* .a
      <<46,100,98>>,   \* .db
      <<46,115,113,108,105,116,101>>,   \* .sqlite
      <<46,115,113,108,105,116,101,51>>,   \* .sqlite3
      <<46,109,112,51>>,   \* .mp3
      <<46,109,112,52>>,   \* .mp4
      <<46,97,118,105>>,   \* .avi
      <<46,109,111,118>>,   \* .mov
      <<46,119,97,118>> }   \* .wav

\* ------------------------------------------------------------------- text
Sep == <<47>>

\* str.lower() on ASCII text.
Lower(s) == [i \in 1..Len(s) |-> IF s[i] >= 65 /\ s[i] <= 90 THEN s[i] + 32 ELSE s[i]]

\* str.startswith('.')
StartsWithDot(name) == Len(name) >= 1 /\ name[1] = 46

\* str.rfind('.'), 1-based; 0 when there is no dot.
RFindDot(name) ==
    LET dots == {i \in 1..Len(name) : name[i] = 46}
    IN  IF dots = {} THEN 0 ELSE CHOOSE i \in dots : \A j \in dots : j <= i

\* PurePath.suffix: the text from the last dot of the final component on,
\* empty when the dot is the first or the last character.
Suffix(name) ==
    LET i == RFindDot(name)
    IN  IF i > 1 /\ i < Len(name) THEN SubSeq(name, i, Len(name)) ELSE <<>>

\* Python's "<" on two str values: lexicographic by code point.
RECURSIVE StrLess(_, _)
StrLess(s, t) ==
    IF t = <<>> THEN FALSE
    ELSE IF s = <<>> THEN TRUE
    ELSE IF Head(s) < Head(t) THEN TRUE
    ELSE IF Head(t) < Head(s) THEN FALSE
    ELSE StrLess(Tail(s), Tail(t))

\* Python's "<" on two lists of str: lexicographic by component.
RECURSIVE PartsLess(_, _)
PartsLess(p, r) ==
    IF r = <<>> THEN FALSE
    ELSE IF p = <<>> THEN TRUE
    ELSE IF StrLess(Head(p), Head(r)) THEN TRUE
    ELSE IF StrLess(Head(r), Head(p)) THEN FALSE
    ELSE PartsLess(Tail(p), Tail(r))

\* str(path): the components joined by the separator.
RECURSIVE PathStr(_)
PathStr(p) ==
    IF p = <<>> THEN <<>>
    ELSE IF Len(p) = 1 THEN p[1]
    ELSE p[1] \o Sep \o PathStr(Tail(p))

\* The order sorted() uses on pathlib.Path values: PurePath.__lt__ compares
\* the lists of components, each component as text.
PathLessByStr(p, r) == StrLess(PathStr(p), PathStr(r))
PathLess(p, r) == PartsLess(p, r)

\* sorted(valid_files)
SortedByPathString(files) == SortSeq(files, PathLessByStr)
Sorted(files) == SortSeq(files, PathLess)

\* ------------------------------------------------------------ file system
\* A directory entry as os.scandir yields it: its name, what it is without
\* following links ("dir", "file", "symlink"), for a directory or a link to
\* one the node it leads to, and for a link what following it would give.
Dir(name, node)     == [name |-> name, type |-> "dir",     node |-> node, to |-> "dir"]
File(name)          == [name |-> name, type |-> "file",    node |-> 0,    to |-> "file"]
LinkDir(name, node) == [name |-> name, type |-> "symlink", node |-> node, to |-> "dir"]
LinkFile(name)      == [name |-> name, type |-> "symlink", node |-> 0,    to |-> "file"]

\* A directory: the error os.scandir raises on it ("none" when it lists) and
\* its entries in listing order.
Node(err, entries) == [err |-> err, entries |-> entries]

\* The exceptions the worker catches per directory.
TraversalErrors == {"PermissionError", "FileNotFoundError", "NotADirectoryError"}

\* Three project trees; node 1 is the scan root.
\*   filters:  bin/k.c  .g/h.c  gen/g.c  m.py  x.PNG  .e  y.TXT
TreeFilters ==
    << Node("none", << Dir(<<98,105,110>>, 2), Dir(<<46,103>>, 3), Dir(<<103,101,110>>, 4),
                       File(<<109,46,112,121>>), File(<<120,46,80,78,71>>),
                       File(<<46,101>>), File(<<121,46,84,88,84>>) >>),
       Node("none", << File(<<107,46,99>>) >>),
       Node("none", << File(<<104,46,99>>) >>),
       Node("none", << File(<<103,46,99>>) >>) >>
\*   order:    a/b  a-b/c  c
TreeOrder ==
    << Node("none", << Dir(<<97>>, 2), Dir(<<97,45,98>>, 3), File(<<99>>) >>),
       Node("none", << File(<<98>>) >>),
       Node("none", << File(<<99>>) >>) >>
\*   links:    l -> .   s -> (a file)   p/ (permission denied)   v/ (vanished)
\*             n/ (no longer a directory)   q/f   q/u -> .
TreeLinks ==
    << Node("none", << LinkDir(<<108>>, 1), LinkFile(<<115>>), Dir(<<112>>, 2),
                       Dir(<<118>>, 3), Dir(<<110>>, 4), Dir(<<113>>, 5) >>),
       Node("PermissionError", << File(<<122>>) >>),
       Node("FileNotFoundError", << >>),
       Node("NotADirectoryError", << >>),
       Node("none", << File(<<102>>), LinkDir(<<117>>, 1) >>) >>

Trees == << TreeFilters, TreeOrder, TreeLinks >>

\* Caller-supplied additions to the exclusion sets.
CustomDirChoices == { {}, { <<103,101,110>> } }                 \* gen
CustomExtChoices == { {}, { <<46,116,120,116>> }, { <<46,84,88,84>> } }   \* .txt  .TXT

\* The scans explored: the tree on disk with the caller's additions.  The
\* additions name entries of the first tree only, so the other trees are
\* scanned with the defaults.
Scenarios ==
    { [tree |-> 1, dirs |-> d, exts |-> e] : d \in CustomDirChoices, e \in CustomExtChoices }
    \cup { [tree |-> t, dirs |-> {}, exts |-> {}] : t \in 2..Len(Trees) }

\* ------------------------------------------------------------------ state
VARIABLES
    \* inputs of one scan, fixed while it runs
    tree,                   \* which project tree is on disk (index into Trees)
    max_workers,            \* the worker-pool size
    custom_excluded_dirs,   \* caller-supplied directory names
    custom_excluded_exts,   \* caller-supplied extensions
    root_exists,            \* self.root_dir.exists()
    has_callback,           \* progress_callback is not None
    \* environment
    stop_requested,         \* what check_cancel() returns when called
    clock,                  \* the latest reading of time.time()
    \* main thread
    mpc, mi, result,
    \* shared objects of scan_parallel
    q, unfinished,          \* queue.Queue: its items and its unfinished_tasks
    cancel_flag,            \* threading.Event
    valid_files, scanned_count,
    last_callback_time,
    \* worker threads: w |-> the thread's position and locals
    workers,
    \* history, for stating properties
    calls,                  \* the invocations of progress_callback, in order
    listed,                 \* bag of the directory paths os.scandir has listed
    errors,                 \* the directory paths on which os.scandir raised
    saw_cancel,             \* some worker got True from check_cancel()
    admitted                \* the clock readings admitted under callback_lock, in order

scanVars ==
    << tree, max_workers, custom_excluded_dirs, custom_excluded_exts, root_exists,
       has_callback, stop_requested, clock, mpc, mi, result, q, unfinished,
       cancel_flag, valid_files, scanned_count, last_callback_time, workers,
       calls, listed, errors, saw_cancel, admitted >>

\* One call of Scanner.read_file_content (scanner.py lines 285-316).
VARIABLES
    raw_data,               \* the bytes of the file
    read_error,             \* the exception file_path.read_bytes() raises, or "none"
    detected,               \* the 'encoding' entry of chardet.detect's result
    sample,                 \* the bytes handed to chardet.detect
    text,                   \* the returned text, a sequence of code points
    stage,                  \* the return statement that produced text
    dpc                     \* position in read_file_content

decodeVars == << raw_data, read_error, detected, sample, text, stage, dpc >>

\* Calls of Scanner.remove_code_comments (scanner.py lines 42-117).
VARIABLES
    content,                \* the content argument of the first call
    ext,                    \* the ext argument
    stripped,               \* remove_code_comments(content, ext)
    restripped,             \* remove_code_comments(stripped, ext)
    spc                     \* how many calls have returned

stripVars == << content, ext, stripped, restripped, spc >>

textVars == << decodeVars, stripVars >>

\* One call of PDFGenerator.generate (pdf_generator.py lines 91-132).
VARIABLES
    pdf,                    \* the generator's fields and the file_contents argument
    cancel_requested,       \* what check_cancel() returns when called
    pag,                    \* the frame of _paginate
    gen                     \* the frame of generate, its canvas and the output file

pdfVars == << pdf, cancel_requested, pag, gen >>

\* The application and one run of MainApplication._process_task (gui.py
\* lines 1002-1194).
VARIABLES
    task                    \* the task thread's position and locals, and the
                            \* widgets and the font registry it works on

vars == << scanVars, textVars, pdfVars, task >>

\* No file is being decoded and no content is being stripped.
DecodeIdle ==
    /\ raw_data = <<>>
    /\ read_error = "none"
    /\ detected = "None"
    /\ sample = <<>>
    /\ text = <<>>
    /\ stage = "none"
    /\ dpc = "off"

StripIdle ==
    /\ content = <<>>
    /\ ext = <<>>
    /\ stripped = <<>>
    /\ restripped = <<>>
    /\ spc = "off"

\* The frames of _paginate and generate when they are not running.
PagOff ==
    [pc |-> "off", fi |-> 0, pages |-> <<>>, current_page_lines |-> <<>>,
     current_lines_count |-> 0, cleaned_lines |-> <<>>, wrapped |-> <<>>]
GenOff ==
    [pc |-> "off", pages |-> <<>>, total_pages |-> 0, selected_pages |-> <<>>, i |-> 0,
     canvas |-> <<>>, saved |-> FALSE, observed |-> FALSE, ret |-> <<>>]

\* The application with no task started: the buttons as built, no font
\* registered.
NoTask ==
    [pc |-> "idle", running |-> FALSE, scheduled |-> FALSE, threads |-> 0, runs |-> 0,
     registrations |-> 0, files |-> <<>>, futures |-> <<>>, results |-> <<>>,
     order |-> <<>>, file_contents |-> <<>>, lines_per_page |-> 0,
     scan_cancelled |-> FALSE, skipped |-> FALSE, invoked |-> FALSE,
     outcome |-> "none", dialog |-> "none"]

\* generate is not called.
PdfIdle ==
    /\ pdf = [file_contents |-> <<>>, lines_per_page |-> 1, content_width |-> 1]
    /\ cancel_requested = FALSE
    /\ pag = PagOff
    /\ gen = GenOff

inputVars ==
    << tree, max_workers, custom_excluded_dirs, custom_excluded_exts, root_exists,
       has_callback >>

FS == Trees[tree]
Threads == 1..max_workers

\* Scanner.__init__: the defaults merged with the caller's additions.
excluded_dirs == DEFAULT_EXCLUDED_DIRS \cup custom_excluded_dirs
excluded_exts == DEFAULT_EXCLUDED_EXTENSIONS \cup custom_excluded_exts

\* The directory a path (components below the root) leads to, as the
\* operating system resolves it: links are followed.
RECURSIVE Resolve(_)
Resolve(path) ==
    IF path = <<>> THEN 1
    ELSE LET parent == FS[Resolve(SubSeq(path, 1, Len(path) - 1))].entries
             name   == path[Len(path)]
             k      == CHOOSE k \in 1..Len(parent) : parent[k].name = name
         IN  parent[k].node

\* entry.is_dir(follow_symlinks=False), entry.is_file(follow_symlinks=False)
EntryIsDirFollowingLinks(e) == e.to = "dir"
EntryIsDir(e) == e.type = "dir"
EntryIsFile(e) == e.type = "file"

\* The directory test of the worker: name.startswith('.') or name in excluded_dirs
IsPrunedByNameOnly(name) == name \in excluded_dirs
IsPruned(name) == StartsWithDot(name) \/ name \in excluded_dirs

\* Scanner._is_valid_file
_is_valid_file(file_path) ==
    LET name == file_path[Len(file_path)]
    IN  IF Lower(Suffix(name)) \in excluded_exts THEN FALSE
        ELSE IF StartsWithDot(name) THEN FALSE
        ELSE TRUE

\* Items of the queue: a directory path, or the stop signal None.
DirItem(path) == [none |-> FALSE, path |-> path]
NoneItem == [none |-> TRUE, path |-> <<>>]

\* A worker before its thread is started.
IdleWorker ==
    [pc |-> "idle", item |-> NoneItem, i |-> 0, local_scanned |-> 0,
     local_valid |-> 0, count |-> 0, now |-> 0]

\* progress_callback(count, path) records
PathCall(count, path) == [count |-> count, kind |-> "path", path |-> path]
DoneCall(count) == [count |-> count, kind |-> "Done", path |-> <<>>]

Init ==
    /\ \E s \in Scenarios :
          /\ tree = s.tree
          /\ custom_excluded_dirs = s.dirs
          /\ custom_excluded_exts = s.exts
    /\ max_workers \in 1..MaxWorkers
    /\ root_exists \in BOOLEAN
    /\ has_callback \in BOOLEAN
    /\ stop_requested = FALSE
    /\ clock = StartTime
    /\ mpc = "begin"
    /\ mi = 0
    /\ result = <<>>
    /\ q = <<>>
    /\ unfinished = 0
    /\ cancel_flag = FALSE
    /\ valid_files = <<>>
    /\ scanned_count = 0
    /\ last_callback_time = 0
    /\ workers = [w \in 1..max_workers |-> IdleWorker]
    /\ calls = <<>>
    /\ listed = [p \in {} |-> 0]
    /\ errors = {}
    /\ saw_cancel = FALSE
    /\ admitted = <<>>
    /\ DecodeIdle
    /\ StripIdle
    /\ PdfIdle
    /\ task = NoTask

\* ------------------------------------------------------------ main thread
\* scan_parallel, lines 172-184: the root check and the first queue item.
MainBegin ==
    /\ mpc = "begin"
    /\ IF ~root_exists
       THEN /\ result' = <<>>
            /\ mpc' = "returned"
            /\ UNCHANGED << q, unfinished, mi >>
       ELSE /\ q' = << DirItem(<<>>) >>
            /\ unfinished' = 1
            /\ mi' = 1
            /\ mpc' = "start"
            /\ UNCHANGED result
    /\ UNCHANGED << task, textVars, pdfVars, admitted, inputVars, stop_requested, clock, cancel_flag, valid_files,
                    scanned_count, last_callback_time, workers, calls, listed,
                    errors, saw_cancel >>

\* lines 254-256: t.start() for one thread.
MainStart ==
    /\ mpc = "start"
    /\ workers' = [workers EXCEPT ![mi].pc = "head"]
    /\ IF mi = max_workers
       THEN mpc' = "join" /\ mi' = 0
       ELSE mpc' = "start" /\ mi' = mi + 1
    /\ UNCHANGED << task, textVars, pdfVars, admitted, inputVars, stop_requested, clock, result, q, unfinished,
                    cancel_flag, valid_files, scanned_count, last_callback_time,
                    calls, listed, errors, saw_cancel >>

MainJoinNoWait ==
    /\ mpc = "join"
    /\ mpc' = "stop"
    /\ mi' = 1
    /\ UNCHANGED << task, textVars, pdfVars, admitted, inputVars, stop_requested, clock, result, q, unfinished,
                    cancel_flag, valid_files, scanned_count, last_callback_time,
                    workers, calls, listed, errors, saw_cancel >>

\* line 258: q.join() returns when no queued item is unfinished.
MainJoin ==
    /\ mpc = "join"
    /\ unfinished = 0
    /\ mpc' = "stop"
    /\ mi' = 1
    /\ UNCHANGED << task, textVars, pdfVars, admitted, inputVars, stop_requested, clock, result, q, unfinished,
                    cancel_flag, valid_files, scanned_count, last_callback_time,
                    workers, calls, listed, errors, saw_cancel >>

MainStopOnce ==
    /\ mpc = "stop"
    /\ q' = Append(q, NoneItem)
    /\ unfinished' = unfinished + 1
    /\ mpc' = "join_threads"
    /\ mi' = 0
    /\ UNCHANGED << task, textVars, pdfVars, admitted, inputVars, stop_requested, clock, result, cancel_flag,
                    valid_files, scanned_count, last_callback_time, workers,
                    calls, listed, errors, saw_cancel >>

\* lines 259-260: one q.put(None) per thread.
MainStop ==
    /\ mpc = "stop"
    /\ q' = Append(q, NoneItem)
    /\ unfinished' = unfinished + 1
    /\ IF mi = max_workers
       THEN mpc' = "join_threads" /\ mi' = 0
       ELSE mpc' = "stop" /\ mi' = mi + 1
    /\ UNCHANGED << task, textVars, pdfVars, admitted, inputVars, stop_requested, clock, result, cancel_flag,
                    valid_files, scanned_count, last_callback_time, workers,
                    calls, listed, errors, saw_cancel >>

\* lines 261-262: t.join(timeout=1) for every thread; each call returns when
\* the thread has ended or after one second, so the loop always completes.
MainJoinThreads ==
    /\ mpc = "join_threads"
    /\ mpc' = "check"
    /\ UNCHANGED << task, textVars, pdfVars, admitted, inputVars, stop_requested, clock, mi, result, q, unfinished,
                    cancel_flag, valid_files, scanned_count, last_callback_time,
                    workers, calls, listed, errors, saw_cancel >>

MainCheckIgnoringCancel ==
    /\ mpc = "check"
    /\ mpc' = "final"
    /\ UNCHANGED << task, textVars, pdfVars, admitted, inputVars, stop_requested, clock, mi, result, q, unfinished,
                    cancel_flag, valid_files, scanned_count, last_callback_time,
                    workers, calls, listed, errors, saw_cancel >>

\* lines 264-265: a cancelled scan returns the empty list.
MainCheck ==
    /\ mpc = "check"
    /\ IF cancel_flag
       THEN result' = <<>> /\ mpc' = "returned"
       ELSE result' = result /\ mpc' = "final"
    /\ UNCHANGED << task, textVars, pdfVars, admitted, inputVars, stop_requested, clock, mi, q, unfinished,
                    cancel_flag, valid_files, scanned_count, last_callback_time,
                    workers, calls, listed, errors, saw_cancel >>

\* lines 268-269: the final report.
MainFinal ==
    /\ mpc = "final"
    /\ calls' = IF has_callback THEN Append(calls, DoneCall(Len(valid_files))) ELSE calls
    /\ mpc' = "return"
    /\ UNCHANGED << task, textVars, pdfVars, admitted, inputVars, stop_requested, clock, mi, result, q, unfinished,
                    cancel_flag, valid_files, scanned_count, last_callback_time,
                    workers, listed, errors, saw_cancel >>

\* line 271: return sorted(valid_files)
MainReturn ==
    /\ mpc = "return"
    /\ result' = Sorted(valid_files)
    /\ mpc' = "returned"
    /\ UNCHANGED << task, textVars, pdfVars, admitted, inputVars, stop_requested, clock, mi, q, unfinished,
                    cancel_flag, valid_files, scanned_count, last_callback_time,
                    workers, calls, listed, errors, saw_cancel >>

Main ==
    \/ MainBegin
    \/ MainStart
    \/ MainJoin
    \/ MainStop
    \/ MainJoinThreads
    \/ MainCheck
    \/ MainFinal
    \/ MainReturn

\* ---------------------------------------------------------- worker threads
Entries(w) == FS[Resolve(workers[w].item.path)].entries
CurrentEntry(w) == Entries(w)[workers[w].i]
\* pathlib.Path(entry.path)
FilePath(w) == Append(workers[w].item.path, CurrentEntry(w).name)

\* The worker moves on to the next directory entry (the locals of the
\* finished iteration are dead and reset).
NextEntry(w) ==
    [workers[w] EXCEPT !.pc = "entry", !.i = @ + 1, !.local_scanned = 0,
                       !.local_valid = 0, !.count = 0, !.now = 0]

\* lines 206-208: the loop head reads the cancel flag.
WorkerHead(w) ==
    /\ workers[w].pc = "head"
    /\ workers' = [workers EXCEPT ![w].pc = IF cancel_flag THEN "exited" ELSE "get"]
    /\ UNCHANGED << task, textVars, pdfVars, admitted, inputVars, stop_requested, clock, mpc, mi, result, q,
                    unfinished, cancel_flag, valid_files, scanned_count,
                    last_callback_time, calls, listed, errors, saw_cancel >>

\* lines 209-212: q.get(timeout=0.2); on queue.Empty the loop continues.
WorkerGet(w) ==
    /\ workers[w].pc = "get"
    /\ IF q = <<>>
       THEN /\ workers' = [workers EXCEPT ![w].pc = "head"]
            /\ q' = q
       ELSE /\ workers' = [workers EXCEPT ![w].pc = "got", ![w].item = Head(q)]
            /\ q' = Tail(q)
    /\ UNCHANGED << task, textVars, pdfVars, admitted, inputVars, stop_requested, clock, mpc, mi, result,
                    unfinished, cancel_flag, valid_files, scanned_count,
                    last_callback_time, calls, listed, errors, saw_cancel >>

WorkerGotNoFlag(w) ==
    /\ workers[w].pc = "got"
    /\ workers' = [workers EXCEPT ![w].pc =
          IF workers[w].item.none THEN "done_break"
          ELSE IF stop_requested THEN "done_continue"
          ELSE "scandir"]
    /\ saw_cancel' = (saw_cancel \/ (~workers[w].item.none /\ stop_requested))
    /\ UNCHANGED << task, textVars, pdfVars, admitted, inputVars, stop_requested, clock, mpc, mi, result, q,
                    unfinished, cancel_flag, valid_files, scanned_count,
                    last_callback_time, calls, listed, errors >>

\* lines 213-219: the stop signal ends the loop; a true check_cancel() sets the
\* flag and continues; both leave through the finally clause.
WorkerGot(w) ==
    /\ workers[w].pc = "got"
    /\ IF workers[w].item.none
       THEN /\ workers' = [workers EXCEPT ![w].pc = "done_break"]
            /\ UNCHANGED << cancel_flag, saw_cancel >>
       ELSE IF stop_requested
       THEN /\ cancel_flag' = TRUE
            /\ saw_cancel' = TRUE
            /\ workers' = [workers EXCEPT ![w].pc = "done_continue"]
       ELSE /\ workers' = [workers EXCEPT ![w].pc = "scandir"]
            /\ UNCHANGED << cancel_flag, saw_cancel >>
    /\ UNCHANGED << task, textVars, pdfVars, admitted, inputVars, stop_requested, clock, mpc, mi, result, q,
                    unfinished, valid_files, scanned_count, last_callback_time,
                    calls, listed, errors >>

WorkerScandirUncaught(w) ==
    /\ workers[w].pc = "scandir"
    /\ LET path == workers[w].item.path
       IN  IF FS[Resolve(path)].err \in TraversalErrors
           THEN /\ errors' = errors \cup {path}
                /\ workers' = [workers EXCEPT ![w].pc = "done_break"]
                /\ UNCHANGED listed
           ELSE /\ listed' = [p \in DOMAIN listed \cup {path} |->
                                 IF p \in DOMAIN listed
                                 THEN listed[p] + (IF p = path THEN 1 ELSE 0)
                                 ELSE 1]
                /\ workers' = [workers EXCEPT ![w].pc = "entry", ![w].i = 1]
                /\ UNCHANGED errors
    /\ UNCHANGED << task, textVars, pdfVars, admitted, inputVars, stop_requested, clock, mpc, mi, result, q,
                    unfinished, cancel_flag, valid_files, scanned_count,
                    last_callback_time, calls, saw_cancel >>

\* lines 221-222 and 249-250: os.scandir(dir_path); a traversal error is
\* caught and the directory is skipped.
WorkerScandir(w) ==
    /\ workers[w].pc = "scandir"
    /\ LET path == workers[w].item.path
       IN  IF FS[Resolve(path)].err \in TraversalErrors
           THEN /\ errors' = errors \cup {path}
                /\ workers' = [workers EXCEPT ![w].pc = "done_continue"]
                /\ UNCHANGED listed
           ELSE /\ listed' = [p \in DOMAIN listed \cup {path} |->
                                 IF p \in DOMAIN listed
                                 THEN listed[p] + (IF p = path THEN 1 ELSE 0)
                                 ELSE 1]
                /\ workers' = [workers EXCEPT ![w].pc = "entry", ![w].i = 1]
                /\ UNCHANGED errors
    /\ UNCHANGED << task, textVars, pdfVars, admitted, inputVars, stop_requested, clock, mpc, mi, result, q,
                    unfinished, cancel_flag, valid_files, scanned_count,
                    last_callback_time, calls, saw_cancel >>

\* lines 223-226: the head of the entry loop; cancellation is checked before
\* each entry (check_cancel() is called only when the flag is not yet set).
WorkerEntry(w) ==
    /\ workers[w].pc = "entry"
    /\ IF workers[w].i > Len(Entries(w))
       THEN /\ workers' = [workers EXCEPT ![w].pc = "done_continue"]
            /\ UNCHANGED << cancel_flag, saw_cancel >>
       ELSE IF cancel_flag \/ stop_requested
       THEN /\ cancel_flag' = TRUE
            /\ saw_cancel' = (saw_cancel \/ ~cancel_flag)
            /\ workers' = [workers EXCEPT ![w].pc = "done_continue"]
       ELSE /\ workers' = [workers EXCEPT ![w].pc = "classify"]
            /\ UNCHANGED << cancel_flag, saw_cancel >>
    /\ UNCHANGED << task, textVars, pdfVars, admitted, inputVars, stop_requested, clock, mpc, mi, result, q,
                    unfinished, valid_files, scanned_count, last_callback_time,
                    calls, listed, errors >>

\* lines 228-237: a directory is pruned or enqueued; a regular file is counted
\* (first critical section of lock); anything else is skipped.
WorkerClassify(w) ==
    /\ workers[w].pc = "classify"
    /\ LET e == CurrentEntry(w)
       IN  IF EntryIsDir(e)
           THEN /\ IF IsPruned(e.name)
                   THEN UNCHANGED << q, unfinished >>
                   ELSE /\ q' = Append(q, DirItem(FilePath(w)))
                        /\ unfinished' = unfinished + 1
                /\ workers' = [workers EXCEPT ![w] = NextEntry(w)]
                /\ UNCHANGED scanned_count
           ELSE IF EntryIsFile(e)
           THEN /\ scanned_count' = scanned_count + 1
                /\ workers' = [workers EXCEPT ![w].pc = "validate",
                                              ![w].local_scanned = scanned_count + 1]
                /\ UNCHANGED << q, unfinished >>
           ELSE /\ workers' = [workers EXCEPT ![w] = NextEntry(w)]
                /\ UNCHANGED << q, unfinished, scanned_count >>
    /\ UNCHANGED << task, textVars, pdfVars, admitted, inputVars, stop_requested, clock, mpc, mi, result,
                    cancel_flag, valid_files, last_callback_time, calls, listed,
                    errors, saw_cancel >>

\* lines 239-247: a valid file is appended (second critical section of lock);
\* local_valid is None (-1) for an invalid one; every ProgressEvery-th scanned
\* file goes on to report progress.
WorkerValidate(w) ==
    /\ workers[w].pc = "validate"
    /\ LET valid == _is_valid_file(FilePath(w))
           lv    == IF valid THEN Len(valid_files) + 1 ELSE -1
       IN  /\ valid_files' = IF valid THEN Append(valid_files, FilePath(w)) ELSE valid_files
           /\ workers' = IF workers[w].local_scanned % ProgressEvery = 0
                         THEN [workers EXCEPT ![w].pc = "report", ![w].local_valid = lv]
                         ELSE [workers EXCEPT ![w] = NextEntry(w)]
    /\ UNCHANGED << task, textVars, pdfVars, admitted, inputVars, stop_requested, clock, mpc, mi, result, q,
                    unfinished, cancel_flag, scanned_count, last_callback_time,
                    calls, listed, errors, saw_cancel >>

\* lines 248 and 194-197: the count argument is evaluated (len(valid_files) is
\* read without the lock when the file was invalid), throttled_callback returns
\* at once without a callback, and otherwise reads the clock.
WorkerReport(w) ==
    /\ workers[w].pc = "report"
    /\ IF ~has_callback
       THEN /\ workers' = [workers EXCEPT ![w] = NextEntry(w)]
            /\ clock' = clock
       ELSE \E t \in clock..MaxTime :
                /\ clock' = t
                /\ workers' = [workers EXCEPT
                      ![w].pc = "throttle",
                      ![w].now = t,
                      ![w].count = IF workers[w].local_valid # -1
                                   THEN workers[w].local_valid
                                   ELSE Len(valid_files)]
    /\ UNCHANGED << task, textVars, pdfVars, admitted, inputVars, stop_requested, mpc, mi, result, q, unfinished,
                    cancel_flag, valid_files, scanned_count, last_callback_time,
                    calls, listed, errors, saw_cancel >>

\* lines 198-201: under callback_lock, a reading less than the minimum
\* interval after the last admitted one returns; otherwise it is admitted.
WorkerThrottleNoUpdate(w) ==
    /\ workers[w].pc = "throttle"
    /\ IF workers[w].now - last_callback_time < MIN_CALLBACK_INTERVAL
       THEN /\ workers' = [workers EXCEPT ![w] = NextEntry(w)]
            /\ UNCHANGED << last_callback_time, admitted >>
       ELSE /\ UNCHANGED last_callback_time
            /\ admitted' = Append(admitted, workers[w].now)
            /\ workers' = [workers EXCEPT ![w].pc = "call"]
    /\ UNCHANGED << task, textVars, pdfVars, inputVars, stop_requested, clock, mpc, mi, result, q,
                    unfinished, cancel_flag, valid_files, scanned_count, calls,
                    listed, errors, saw_cancel >>

WorkerThrottle(w) ==
    /\ workers[w].pc = "throttle"
    /\ IF workers[w].now - last_callback_time < MIN_CALLBACK_INTERVAL
       THEN /\ workers' = [workers EXCEPT ![w] = NextEntry(w)]
            /\ UNCHANGED << last_callback_time, admitted >>
       ELSE /\ last_callback_time' = workers[w].now
            /\ admitted' = Append(admitted, workers[w].now)
            /\ workers' = [workers EXCEPT ![w].pc = "call"]
    /\ UNCHANGED << task, textVars, pdfVars, inputVars, stop_requested, clock, mpc, mi, result, q,
                    unfinished, cancel_flag, valid_files, scanned_count, calls,
                    listed, errors, saw_cancel >>

\* line 202: progress_callback(count, path), outside the lock.
WorkerCall(w) ==
    /\ workers[w].pc = "call"
    /\ calls' = Append(calls, PathCall(workers[w].count, FilePath(w)))
    /\ workers' = [workers EXCEPT ![w] = NextEntry(w)]
    /\ UNCHANGED << task, textVars, pdfVars, admitted, inputVars, stop_requested, clock, mpc, mi, result, q,
                    unfinished, cancel_flag, valid_files, scanned_count,
                    last_callback_time, listed, errors, saw_cancel >>

\* q.task_done() at the end of the loop body instead of in a finally clause:
\* the break on a stop signal leaves the item unmarked.
WorkerTaskDoneOutsideFinally(w) ==
    /\ workers[w].pc \in {"done_break", "done_continue"}
    /\ unfinished' = IF workers[w].pc = "done_break" THEN unfinished ELSE unfinished - 1
    /\ workers' = [workers EXCEPT
          ![w] = [IdleWorker EXCEPT
                     !.pc = IF workers[w].pc = "done_break" THEN "exited" ELSE "head"]]
    /\ UNCHANGED << task, textVars, pdfVars, admitted, inputVars, stop_requested, clock, mpc, mi, result, q,
                    cancel_flag, valid_files, scanned_count, last_callback_time,
                    calls, listed, errors, saw_cancel >>

\* lines 251-252: finally: q.task_done(); then the loop ends (break) or goes
\* back to its head (continue, or the end of the body).
WorkerTaskDone(w) ==
    /\ workers[w].pc \in {"done_break", "done_continue"}
    /\ unfinished' = unfinished - 1
    /\ workers' = [workers EXCEPT
          ![w] = [IdleWorker EXCEPT
                     !.pc = IF workers[w].pc = "done_break" THEN "exited" ELSE "head"]]
    /\ UNCHANGED << task, textVars, pdfVars, admitted, inputVars, stop_requested, clock, mpc, mi, result, q,
                    cancel_flag, valid_files, scanned_count, last_callback_time,
                    calls, listed, errors, saw_cancel >>

Worker(w) ==
    \/ WorkerHead(w)
    \/ WorkerGet(w)
    \/ WorkerGot(w)
    \/ WorkerScandir(w)
    \/ WorkerEntry(w)
    \/ WorkerClassify(w)
    \/ WorkerValidate(w)
    \/ WorkerReport(w)
    \/ WorkerThrottle(w)
    \/ WorkerCall(w)
    \/ WorkerTaskDone(w)

\* ------------------------------------------------------------ environment
\* The caller's cancel predicate becomes true (the user's stop request); it
\* stays true for the rest of the scan.
RequestStop ==
    /\ ~stop_requested
    /\ mpc \notin {"begin", "returned"}
    /\ stop_requested' = TRUE
    /\ UNCHANGED << task, textVars, pdfVars, admitted, inputVars, clock, mpc, mi, result, q, unfinished,
                    cancel_flag, valid_files, scanned_count, last_callback_time,
                    workers, calls, listed, errors, saw_cancel >>

\* ---------------------------------------------------------- specifications
ScanStep == Main \/ \E w \in Threads : Worker(w)

Next == ScanStep \/ RequestStop

Spec == Init /\ [][Next]_vars

\* The scan with a cancel predicate that never becomes true, under the
\* scheduling of threads: no running thread is starved forever.
ScanFairness ==
    /\ WF_vars(Main)
    /\ \A w \in 1..MaxWorkers : WF_vars(w \in Threads /\ Worker(w))

\* Termination does not depend on the caller's additions to the exclusion
\* sets: the fair scans start from the default sets.
InitDefaults ==
    /\ Init
    /\ custom_excluded_dirs = {}
    /\ custom_excluded_exts = {}

SpecNoCancel == InitDefaults /\ [][ScanStep]_vars /\ ScanFairness

\* The same scheduling with a cancel predicate that may become true.
SpecFair == InitDefaults /\ [][Next]_vars /\ ScanFairness

\* ------------------------------------------------------------- properties
Returned == mpc = "returned"
AllExited == \A w \in Threads : workers[w].pc = "exited"
Range(s) == {s[i] : i \in 1..Len(s)}
NoDuplicates(s) == Len(s) = Cardinality(Range(s))

\* The phases of the main thread after q.join() has returned.
AfterJoin == {"stop", "join_threads", "check", "final", "return", "returned"}

\* A worker that has dequeued an item and not yet marked it done.
Holding(w) ==
    workers[w].pc \in {"got", "scandir", "entry", "classify", "validate", "report",
                       "throttle", "call", "done_break", "done_continue"}

\* The tree's valid files: the regular files that pass the validity check and
\* lie below the root through listable, non-pruned real directories.
RECURSIVE ReachableFiles(_, _)
ReachableFiles(node, path) ==
    IF FS[node].err \in TraversalErrors THEN {}
    ELSE UNION { IF e.type = "dir"
                 THEN IF IsPruned(e.name) THEN {}
                      ELSE ReachableFiles(e.node, Append(path, e.name))
                 ELSE IF e.type = "file" /\ _is_valid_file(Append(path, e.name))
                      THEN {Append(path, e.name)}
                      ELSE {}
                 : e \in Range(FS[node].entries) }
CompleteFiles == ReachableFiles(1, <<>>)

\* The directories a complete walk hands to os.scandir.
RECURSIVE ReachableDirs(_, _)
ReachableDirs(node, path) ==
    {path} \cup
    IF FS[node].err \in TraversalErrors THEN {}
    ELSE UNION { IF e.type = "dir" /\ ~IsPruned(e.name)
                 THEN ReachableDirs(e.node, Append(path, e.name))
                 ELSE {}
                 : e \in Range(FS[node].entries) }
AllDirs == ReachableDirs(1, <<>>)

\* C1 (as claimed): once the cancel predicate is true the scan returns; the
\* main thread is never left blocked on q.join() with every worker gone and
\* queued directories that nobody will mark done.
C1_NeverBlockedAtJoin ==
    ~(mpc = "join" /\ unfinished > 0 /\ AllExited)

\* C2: a scan that returns gives either the empty list or the complete list of
\* valid files, and the empty list whenever a worker saw the cancel predicate
\* true.
C2_EmptyOrComplete ==
    Returned =>
        /\ \/ result = <<>>
           \/ Range(result) = CompleteFiles /\ NoDuplicates(result)
        /\ saw_cancel => result = <<>>
C2_Witness ==
    Returned /\ saw_cancel /\ valid_files # <<>> /\ result = <<>>

\* C3: no returned path has a directory component that is an excluded name or
\* starts with '.', and no returned file name starts with '.'.
C3_NoExcludedOrHiddenComponent ==
    Returned =>
        \A i \in 1..Len(result) :
            LET p == result[i]
            IN  /\ \A k \in 1..(Len(p) - 1) :
                       p[k] \notin excluded_dirs /\ ~StartsWithDot(p[k])
                /\ ~StartsWithDot(p[Len(p)])
C3_Witness ==
    /\ Returned /\ tree = 1 /\ custom_excluded_dirs # {}
    /\ << <<109,46,112,121>> >> \in Range(result)
    /\ <<>> \in DOMAIN listed

\* C4: without cancellation the returned list is the same for every pool size
\* and interleaving: the valid reachable files, each once, in path order.
C4_SameListForEveryPool ==
    (Returned /\ root_exists /\ ~stop_requested) =>
        /\ Range(result) = CompleteFiles
        /\ NoDuplicates(result)
        /\ \A i, j \in 1..Len(result) : i < j => PathLess(result[i], result[j])
C4_Witness ==
    /\ Returned /\ ~stop_requested /\ tree = 2 /\ max_workers > 1
    /\ Len(result) = 3 /\ valid_files # result

\* C5 (as claimed): the returned list ascends in the order of the whole path
\* text, separators included.
C5_SortedByPathString ==
    Returned =>
        \A i, j \in 1..Len(result) : i < j => PathLessByStr(result[i], result[j])
\* C5 (amended): the returned list ascends in the order of the paths'
\* component lists, each component compared as text.
C5_SortedByComponents ==
    Returned =>
        \A i, j \in 1..Len(result) : i < j => PartsLess(result[i], result[j])
C5_Witness ==
    /\ Returned
    /\ \E i, j \in 1..Len(result) :
          i < j /\ PartsLess(result[i], result[j]) /\ PathLessByStr(result[j], result[i])
    /\ valid_files # result

\* C6: without cancellation the scan ends by the drain-then-stop handshake:
\* stop signals exist only after q.join() returned with every directory
\* processed, exactly one per worker is sent, and eventually the scan has
\* returned with every worker exited and the queue empty.
StopSignals ==
    Cardinality({i \in 1..Len(q) : q[i].none})
    + Cardinality({w \in Threads : workers[w].pc \in {"got", "done_break"} /\ workers[w].item.none})
    + Cardinality({w \in Threads : workers[w].pc = "exited"})
HandshakeOrder ==
    StopSignals > 0 =>
        /\ mpc \in AfterJoin
        /\ \A i \in 1..Len(q) : q[i].none
        /\ \A w \in Threads : Holding(w) => workers[w].item.none
        /\ DOMAIN listed \cup errors = AllDirs
OneStopPerWorker ==
    /\ StopSignals <= max_workers
    /\ (root_exists /\ mpc \in AfterJoin \ {"stop"}) => StopSignals = max_workers
C6_DrainThenStop ==
    /\ [](HandshakeOrder /\ OneStopPerWorker)
    /\ root_exists => <>[](Returned /\ AllExited /\ q = <<>> /\ unfinished = 0)
C6_Witness ==
    /\ Returned /\ AllExited /\ q = <<>> /\ unfinished = 0
    /\ root_exists /\ max_workers > 1 /\ Cardinality(AllDirs) > 1

\* C7 (as claimed): no file whose extension equals, ignoring case, an entry of
\* the merged exclusion set is in the result collection.
C7_ExcludedIgnoringCase ==
    \A i \in 1..Len(valid_files) :
        LET p   == valid_files[i]
            suffix == Suffix(p[Len(p)])
        IN  ~(\E x \in excluded_exts : Lower(x) = Lower(suffix))

\* C8: symbolic links are never followed: no path through a link is queued,
\* listed or returned, every directory is listed at most once, and no path
\* occurs twice in the result.
IsLinkPath(p) ==
    /\ p # <<>>
    /\ LET parent == FS[Resolve(SubSeq(p, 1, Len(p) - 1))].entries
           k      == CHOOSE k \in 1..Len(parent) : parent[k].name = p[Len(p)]
       IN  parent[k].type = "symlink"
ThroughLink(p) == \E n \in 1..Len(p) : IsLinkPath(SubSeq(p, 1, n))
QueuedPaths ==
    {q[i].path : i \in {i \in 1..Len(q) : ~q[i].none}}
    \cup {workers[w].item.path : w \in {w \in Threads : Holding(w) /\ ~workers[w].item.none}}
C8_SymlinksNeverFollowed ==
    /\ \A p \in QueuedPaths \cup DOMAIN listed \cup Range(valid_files) \cup Range(result) :
           ~ThroughLink(p)
    /\ \A p \in DOMAIN listed : listed[p] <= 1
    /\ \A p, r \in DOMAIN listed : Resolve(p) = Resolve(r) => p = r
    /\ NoDuplicates(valid_files)
    /\ NoDuplicates(result)
C8_Witness ==
    /\ Returned /\ tree = 3 /\ ~cancel_flag
    /\ << <<113>> >> \in DOMAIN listed
    /\ result = << << <<113>>, <<102>> >> >>

\* C9: a traversal error on one directory does not abort the scan: its queue
\* item is still marked done, no worker ends before the stop signals, and the
\* scan goes on to return every valid file of the listable directories with
\* every worker exited.
QueueAccounting ==
    unfinished = Len(q) + Cardinality({w \in Threads : Holding(w)})
C9_TraversalErrorsDoNotAbort ==
    /\ [](errors # {} =>
            /\ QueueAccounting
            /\ \A w \in Threads : workers[w].pc = "exited" => mpc \in AfterJoin)
    /\ (errors # {}) ~> (Returned /\ AllExited /\ Range(result) = CompleteFiles)
C9_Witness ==
    /\ Returned /\ AllExited
    /\ errors = { << <<112>> >>, << <<118>> >>, << <<110>> >> }
    /\ result = << << <<113>>, <<102>> >> >>

\* C10: the "Done" callback is issued at most once and nothing is reported
\* after it; a scan that returns without cancellation has issued it with the
\* final count of valid files; a cancelled scan never issues it.
DoneCalls == {i \in 1..Len(calls) : calls[i].kind = "Done"}
C10_DoneSentinelLast ==
    /\ \A i \in DoneCalls : i = Len(calls)
    /\ cancel_flag => DoneCalls = {}
    /\ (Returned /\ root_exists /\ has_callback /\ ~cancel_flag) =>
           /\ DoneCalls # {}
           /\ calls[Len(calls)].count = Len(result)
           /\ calls[Len(calls)].count = Cardinality(CompleteFiles)
    /\ ~has_callback => calls = <<>>
C10_Witness ==
    /\ Returned /\ ~cancel_flag /\ Len(calls) >= 2
    /\ calls[1].kind = "path"
    /\ calls[Len(calls)].kind = "Done"

\* C11: any two progress callbacks issued by workers in one scan were
\* admitted with clock readings at least MIN_CALLBACK_INTERVAL apart, whatever
\* the number of workers: the readings admitted under the lock grow by at
\* least the interval, each admitted reading is the last admitted one, every
\* worker callback made or about to be made has its own admission, and an
\* attempt whose reading is less than the interval after the last admitted
\* one is dropped (it leaves the lock without an admission).
PathCalls == {i \in 1..Len(calls) : calls[i].kind = "path"}
PendingCalls == {w \in DOMAIN workers : workers[w].pc = "call"}
C11_CallbacksAtLeastIntervalApart ==
    /\ \A i, j \in 1..Len(admitted) :
          i < j => admitted[j] - admitted[i] >= MIN_CALLBACK_INTERVAL
    /\ admitted # <<>> => last_callback_time = admitted[Len(admitted)]
    /\ Cardinality(PathCalls) + Cardinality(PendingCalls) = Len(admitted)
    /\ \A w \in PendingCalls : \E i \in 1..Len(admitted) : admitted[i] = workers[w].now

\* Two workers of one pool were past the lock of throttled_callback at the
\* same time, each with an admission of its own: two admitted readings, both
\* callbacks admitted and not yet made.
C11_Witness ==
    /\ max_workers >= 2
    /\ Len(admitted) = 2
    /\ Cardinality(PendingCalls) = 2

\* The other outcome of the lock: one reading was admitted and a second
\* worker holds a reading less than the interval after it.
C11_DropReached ==
    /\ Len(admitted) = 1
    /\ \E w \in DOMAIN workers :
          /\ workers[w].pc = "throttle"
          /\ workers[w].now - last_callback_time < MIN_CALLBACK_INTERVAL

\* ================================================================ decoding
\* Scanner.read_file_content (scanner.py lines 285-316).  Bytes are integers
\* 0..255 and text is a sequence of Unicode code points.

\* The longest file content, in bytes.
MaxBytes == 3
\* The length of the prefix handed to chardet.detect: the 32768 of line 305
\* on the scale of MaxBytes.
SampleLimit == 2

\* The byte values files are made of: 'A'; C3 A9, which is U+00E9 in UTF-8 and
\* one character in GBK; D6 D0, which is U+4E2D in GBK and malformed UTF-8;
\* FF, which no decoder of the chain accepts strictly.
Bytes == {65, 195, 169, 214, 208, 255}
ByteSeqs == UNION {[1..n -> Bytes] : n \in 0..MaxBytes}

\* The exceptions file_path.read_bytes() raises (all are OSError).
ReadErrors == {"PermissionError", "FileNotFoundError", "IsADirectoryError"}

\* What chardet.detect reports as 'encoding': nothing, a codec that rejects
\* the bytes, a codec that accepts every byte string, or a name Python has no
\* codec for.
DetectResults == {"None", "utf-8", "ascii", "ISO-8859-1", "x-unknown"}

\* bytes.decode('utf-8'): the length of the sequence a lead byte announces
\* (0 for a byte that cannot start one).
Utf8Need(b) ==
    IF b < 128 THEN 1
    ELSE IF b >= 194 /\ b <= 223 THEN 2
    ELSE IF b >= 224 /\ b <= 239 THEN 3
    ELSE IF b >= 240 /\ b <= 244 THEN 4
    ELSE 0

\* The k-th byte after the lead at position i continues the sequence.
Utf8ContOk(s, i, k) ==
    /\ i + k <= Len(s)
    /\ LET lo == IF k = 1 /\ s[i] = 224 THEN 160
                 ELSE IF k = 1 /\ s[i] = 240 THEN 144 ELSE 128
           hi == IF k = 1 /\ s[i] = 237 THEN 159
                 ELSE IF k = 1 /\ s[i] = 244 THEN 143 ELSE 191
       IN  s[i + k] >= lo /\ s[i + k] <= hi

\* How many bytes from position i on form the start of a well-formed sequence.
RECURSIVE Utf8GoodFrom(_, _, _)
Utf8GoodFrom(s, i, k) ==
    IF k < Utf8Need(s[i]) /\ Utf8ContOk(s, i, k) THEN Utf8GoodFrom(s, i, k + 1) ELSE k
Utf8Good(s, i) == IF Utf8Need(s[i]) = 0 THEN 0 ELSE Utf8GoodFrom(s, i, 1)

Utf8CodePoint(s, i) ==
    LET n == Utf8Need(s[i])
    IN  IF n = 1 THEN s[i]
        ELSE IF n = 2 THEN (s[i] - 192) * 64 + (s[i + 1] - 128)
        ELSE IF n = 3 THEN (s[i] - 224) * 4096 + (s[i + 1] - 128) * 64 + (s[i + 2] - 128)
        ELSE (s[i] - 240) * 262144 + (s[i + 1] - 128) * 4096
                 + (s[i + 2] - 128) * 64 + (s[i + 3] - 128)

RECURSIVE Utf8ValidFrom(_, _)
Utf8ValidFrom(s, i) ==
    IF i > Len(s) THEN TRUE
    ELSE /\ Utf8Need(s[i]) > 0
         /\ Utf8Good(s, i) = Utf8Need(s[i])
         /\ Utf8ValidFrom(s, i + Utf8Need(s[i]))
\* raw_data.decode('utf-8') does not raise UnicodeDecodeError.
Utf8Valid(s) == Utf8ValidFrom(s, 1)

\* raw_data.decode('utf-8', errors='ignore'): well-formed sequences are
\* decoded and the bytes of a malformed one are skipped.  On valid input it
\* is raw_data.decode('utf-8').
RECURSIVE Utf8IgnoreFrom(_, _)
Utf8IgnoreFrom(s, i) ==
    IF i > Len(s) THEN <<>>
    ELSE IF Utf8Need(s[i]) > 0 /\ Utf8Good(s, i) = Utf8Need(s[i])
         THEN << Utf8CodePoint(s, i) >> \o Utf8IgnoreFrom(s, i + Utf8Need(s[i]))
         ELSE Utf8IgnoreFrom(s, i + (IF Utf8Good(s, i) > 1 THEN Utf8Good(s, i) ELSE 1))
Utf8Ignore(s) == Utf8IgnoreFrom(s, 1)
Utf8Decode(s) == Utf8IgnoreFrom(s, 1)

\* bytes.decode('gbk'): a byte below 0x80 is itself; a lead byte 0x81..0xFE
\* takes a trail byte 0x40..0xFE other than 0x7F.
GbkLead(b) == b >= 129 /\ b <= 254
GbkTrail(b) == b >= 64 /\ b <= 254 /\ b # 127
RECURSIVE GbkValidFrom(_, _)
GbkValidFrom(s, i) ==
    IF i > Len(s) THEN TRUE
    ELSE IF s[i] < 128 THEN GbkValidFrom(s, i + 1)
    ELSE /\ GbkLead(s[i])
         /\ i + 1 <= Len(s)
         /\ GbkTrail(s[i + 1])
         /\ GbkValidFrom(s, i + 2)
GbkValid(s) == GbkValidFrom(s, 1)

\* The code points of the two-byte GBK characters over Bytes.
GbkTable ==
    [p \in {195, 169, 214, 208} \X {65, 195, 169, 214, 208} |->
        CASE p = <<195, 65>> -> 32897  [] p = <<195, 195>> -> 22969
          [] p = <<195, 169>> -> 33541 [] p = <<195, 214>> -> 24357
          [] p = <<195, 208>> -> 30511 [] p = <<169, 65>> -> 12322
          [] p = <<169, 195>> -> 9503  [] p = <<169, 169>> -> 9477
          [] p = <<169, 214>> -> 9522  [] p = <<169, 208>> -> 9516
          [] p = <<214, 65>> -> 35557  [] p = <<214, 195>> -> 32622
          [] p = <<214, 169>> -> 34584 [] p = <<214, 214>> -> 31181
          [] p = <<214, 208>> -> 20013 [] p = <<208, 65>> -> 34853
          [] p = <<208, 195>> -> 24571 [] p = <<208, 169>> -> 20123
          [] p = <<208, 214>> -> 20804 [] p = <<208, 208>> -> 34892]

RECURSIVE GbkDecodeFrom(_, _)
GbkDecodeFrom(s, i) ==
    IF i > Len(s) THEN <<>>
    ELSE IF s[i] < 128 THEN << s[i] >> \o GbkDecodeFrom(s, i + 1)
    ELSE << GbkTable[<< s[i], s[i + 1] >>] >> \o GbkDecodeFrom(s, i + 2)
GbkDecode(s) == GbkDecodeFrom(s, 1)

\* line 307: encoding = result.get('encoding') or 'utf-8'
DetectedEncoding(d) == IF d = "None" THEN "utf-8" ELSE d

\* line 310, raw_data.decode(encoding): whether it returns (no LookupError
\* for the codec name, no UnicodeDecodeError for the bytes), and what.
StrictOk(encoding, s) ==
    CASE encoding = "utf-8" -> Utf8Valid(s)
      [] encoding = "ascii" -> \A i \in 1..Len(s) : s[i] < 128
      [] encoding = "ISO-8859-1" -> TRUE
      [] OTHER -> FALSE
StrictDecode(encoding, s) == IF encoding = "utf-8" THEN Utf8Decode(s) ELSE s

\* line 305: raw_data[:32768]
Sample(s) == SubSeq(s, 1, IF Len(s) < SampleLimit THEN Len(s) ELSE SampleLimit)

Return(value, by) ==
    /\ text' = value
    /\ stage' = by
    /\ dpc' = "done"

\* lines 289-292: read_bytes(); an exception goes to the handler of line 314,
\* empty content returns "".
DecodeRead ==
    /\ dpc = "read"
    /\ IF read_error # "none"
       THEN dpc' = "except" /\ UNCHANGED << text, stage >>
       ELSE IF raw_data = <<>>
            THEN Return(<<>>, "empty")
            ELSE dpc' = "utf8" /\ UNCHANGED << text, stage >>
    /\ UNCHANGED << task, scanVars, pdfVars, stripVars, raw_data, read_error, detected, sample >>

\* A chain that tries GBK where the code tries UTF-8.
DecodeGbkFirst ==
    /\ dpc = "utf8"
    /\ IF GbkValid(raw_data)
       THEN Return(GbkDecode(raw_data), "gbk")
       ELSE dpc' = "gbk" /\ UNCHANGED << text, stage >>
    /\ UNCHANGED << task, scanVars, pdfVars, stripVars, raw_data, read_error, detected, sample >>

\* lines 294-297: strict UTF-8.
DecodeUtf8 ==
    /\ dpc = "utf8"
    /\ IF Utf8Valid(raw_data)
       THEN Return(Utf8Decode(raw_data), "utf-8")
       ELSE dpc' = "gbk" /\ UNCHANGED << text, stage >>
    /\ UNCHANGED << task, scanVars, pdfVars, stripVars, raw_data, read_error, detected, sample >>

\* lines 299-302: strict GBK.
DecodeGbk ==
    /\ dpc = "gbk"
    /\ IF GbkValid(raw_data)
       THEN Return(GbkDecode(raw_data), "gbk")
       ELSE dpc' = "detect" /\ UNCHANGED << text, stage >>
    /\ UNCHANGED << task, scanVars, pdfVars, stripVars, raw_data, read_error, detected, sample >>

\* lines 305-306: chardet.detect on the prefix sample.
DecodeDetect ==
    /\ dpc = "detect"
    /\ sample' = Sample(raw_data)
    /\ detected' \in DetectResults
    /\ dpc' = "strict"
    /\ UNCHANGED << task, scanVars, pdfVars, stripVars, raw_data, read_error, text, stage >>

\* lines 307-312: strict decode with the detected codec, and on
\* UnicodeDecodeError or LookupError the lenient UTF-8 decode.
DecodeDetected ==
    /\ dpc = "strict"
    /\ IF StrictOk(DetectedEncoding(detected), raw_data)
       THEN Return(StrictDecode(DetectedEncoding(detected), raw_data), "detected")
       ELSE Return(Utf8Ignore(raw_data), "lenient")
    /\ UNCHANGED << task, scanVars, pdfVars, stripVars, raw_data, read_error, detected, sample >>

\* A handler that catches decoding errors only: the read error propagates.
DecodeExceptDecodeErrorsOnly ==
    /\ dpc = "except"
    /\ IF read_error = "UnicodeDecodeError"
       THEN Return(<<>>, "error")
       ELSE dpc' = "raised" /\ UNCHANGED << text, stage >>
    /\ UNCHANGED << task, scanVars, pdfVars, stripVars, raw_data, read_error, detected, sample >>

\* lines 314-316: except Exception: print, return "".
DecodeExcept ==
    /\ dpc = "except"
    /\ Return(<<>>, "error")
    /\ UNCHANGED << task, scanVars, pdfVars, stripVars, raw_data, read_error, detected, sample >>

Decode ==
    \/ DecodeRead
    \/ DecodeUtf8
    \/ DecodeGbk
    \/ DecodeDetect
    \/ DecodeDetected
    \/ DecodeExcept

\* scan_parallel is not running.
ScanIdle ==
    /\ tree = 1
    /\ max_workers = 1
    /\ custom_excluded_dirs = {}
    /\ custom_excluded_exts = {}
    /\ root_exists = TRUE
    /\ has_callback = FALSE
    /\ stop_requested = FALSE
    /\ clock = StartTime
    /\ mpc = "off"
    /\ mi = 0
    /\ result = <<>>
    /\ q = <<>>
    /\ unfinished = 0
    /\ cancel_flag = FALSE
    /\ valid_files = <<>>
    /\ scanned_count = 0
    /\ last_callback_time = 0
    /\ workers = <<>>
    /\ calls = <<>>
    /\ listed = [p \in {} |-> 0]
    /\ errors = {}
    /\ saw_cancel = FALSE
    /\ admitted = <<>>

\* read_file_content is called on a file: either reading it raises, or it has
\* some bytes.
InitDecode ==
    /\ ScanIdle
    /\ StripIdle
    /\ PdfIdle
    /\ task = NoTask
    /\ \/ read_error \in ReadErrors /\ raw_data = <<>>
       \/ read_error = "none" /\ raw_data \in ByteSeqs
    /\ detected = "None"
    /\ sample = <<>>
    /\ text = <<>>
    /\ stage = "none"
    /\ dpc = "read"

SpecDecode == InitDecode /\ [][Decode]_vars

\* C12: read_file_content never raises: whatever the bytes and whatever the
\* failure of the read, no exception leaves it and it returns a text; empty
\* content gives the empty text and an error of the read gives the empty text.
C12_NeverRaises ==
    /\ dpc \in {"off", "read", "utf8", "gbk", "detect", "strict", "except", "done"}
    /\ dpc = "done" =>
          /\ text \in Seq(Nat)
          /\ (read_error # "none" => text = <<>>)
          /\ (read_error = "none" /\ raw_data = <<>> => text = <<>>)

\* A read that raised has returned the empty text through the handler.
C12_Witness ==
    /\ dpc = "done"
    /\ read_error \in ReadErrors
    /\ stage = "error"
    /\ text = <<>>

\* C13: the decoders are applied in a fixed priority order, each only when
\* every earlier one failed: strict UTF-8 (also for bytes that are valid GBK),
\* else strict GBK, else a strict decode of the whole content with the charset
\* detected on the first SampleLimit bytes, else the lenient UTF-8 decode, which
\* returns for every byte string.  Detection is not run when an earlier stage
\* succeeded.
C13_DecoderPriority ==
    (dpc = "done" /\ read_error = "none" /\ raw_data # <<>>) =>
        IF Utf8Valid(raw_data)
        THEN stage = "utf-8" /\ text = Utf8Decode(raw_data) /\ sample = <<>>
        ELSE IF GbkValid(raw_data)
        THEN stage = "gbk" /\ text = GbkDecode(raw_data) /\ sample = <<>>
        ELSE /\ Len(sample) <= SampleLimit
             /\ sample = SubSeq(raw_data, 1, Len(sample))
             /\ Len(sample) < SampleLimit => sample = raw_data
             /\ IF StrictOk(DetectedEncoding(detected), raw_data)
                THEN /\ stage = "detected"
                     /\ text = StrictDecode(DetectedEncoding(detected), raw_data)
                ELSE /\ stage = "lenient"
                     /\ text = Utf8Ignore(raw_data)

\* Bytes valid both as UTF-8 and as GBK were decoded as UTF-8, to a text that
\* is not their GBK reading.
C13_Witness ==
    /\ dpc = "done"
    /\ stage = "utf-8"
    /\ GbkValid(raw_data)
    /\ text # GbkDecode(raw_data)

\* The later stages of the chain: content longer than the sample was decoded
\* with the detected charset, and content no strict decoder accepts came out
\* of the lenient decode with the malformed bytes dropped.
C13_LaterStagesReached ==
    \/ dpc = "done" /\ stage = "detected" /\ Len(sample) < Len(raw_data)
    \/ dpc = "done" /\ stage = "lenient" /\ Len(text) < Len(raw_data) /\ text # <<>>

\* ============================================================== stripping
\* Scanner.remove_code_comments (scanner.py lines 35-117).  Text is a
\* sequence of character codes.

\* line 53: the extensions of the tokenizer strategy
PythonExts ==
    { <<46,112,121>>, <<46,112,121,119>> }
\* lines 101-103: the extensions of the lexical-scanning strategy
CStyleExts ==
    {
    <<46,99>>, <<46,99,112,112>>, <<46,104>>, <<46,104,112,112>>, <<46,99,99>>,
    <<46,99,120,120>>, <<46,109>>, <<46,109,109>>, <<46,106,97,118,97>>, <<46,106,115>>,
    <<46,116,115>>, <<46,106,115,120>>, <<46,116,115,120>>, <<46,99,115>>, <<46,103,111>>,
    <<46,114,115>>, <<46,115,119,105,102,116>>, <<46,107,116>>, <<46,115,99,97,108,97>>,
    <<46,112,104,112>>, <<46,99,115,115>>, <<46,115,99,115,115>>, <<46,108,101,115,115>> }
\* line 112: the extensions of the tag-comment strategy
HtmlExts ==
    { <<46,104,116,109,108>>, <<46,104,116,109>>, <<46,120,109,108>>, <<46,115,118,103>>,
    <<46,118,117,101>> }

\* ---------------------------------------------------- lexical scanning
\* _C_STYLE_COMMENT_RE (lines 35-38), tried at position i of s:
\*     ("(?:\\.|[^"\\])*"|'(?:\\.|[^'\\])*')|(/\*[\s\S]*?\*/|//.*)
\* The four alternatives start with different characters, so at most one of
\* them can match at a position.

\* The rest of a quoted literal from position j on: a backslash takes the next
\* character with it unless that character is a newline ('.' does not match
\* a newline) or the text ends; any other character but the quote is taken;
\* the quote ends the literal.  The result is the position of the closing
\* quote, 0 when there is none.
RECURSIVE QuotedEnd(_, _, _)
QuotedEnd(s, j, quote) ==
    IF j > Len(s) THEN 0
    ELSE IF s[j] = 92
         THEN IF j + 1 <= Len(s) /\ s[j + 1] # 10 THEN QuotedEnd(s, j + 2, quote) ELSE 0
    ELSE IF s[j] = quote THEN j
    ELSE QuotedEnd(s, j + 1, quote)

\* /\*[\s\S]*?\*/ : the first "*/" at or after position j, 0 when there is none.
RECURSIVE BlockEnd(_, _)
BlockEnd(s, j) ==
    IF j + 1 > Len(s) THEN 0
    ELSE IF s[j] = 42 /\ s[j + 1] = 47 THEN j + 1
    ELSE BlockEnd(s, j + 1)

\* //.* : up to, not including, the next newline.
RECURSIVE LineEnd(_, _)
LineEnd(s, j) ==
    IF j + 1 > Len(s) \/ s[j + 1] = 10 THEN j ELSE LineEnd(s, j + 1)

\* The match at position i: the position of its last character (0 for no
\* match) and the group that matched, 1 for a literal, 2 for a comment.
CStyleMatchAt(s, i) ==
    IF s[i] = 34 \/ s[i] = 39
    THEN [to |-> QuotedEnd(s, i + 1, s[i]), group |-> 1]
    ELSE IF s[i] = 47 /\ i + 1 <= Len(s) /\ s[i + 1] = 42
    THEN [to |-> BlockEnd(s, i + 2), group |-> 2]
    ELSE IF s[i] = 47 /\ i + 1 <= Len(s) /\ s[i + 1] = 47
    THEN [to |-> LineEnd(s, i + 1), group |-> 2]
    ELSE [to |-> 0, group |-> 0]

\* A replacement that deletes whatever matched.
ReplaceAll(s, i, m) == <<>>

\* lines 105-108: replace(match)
Replace(s, i, m) == IF m.group = 2 THEN <<>> ELSE SubSeq(s, i, m.to)

\* line 109, _C_STYLE_COMMENT_RE.sub(replace, content): the matches are found
\* from left to right, each search starting after the previous match, and the
\* text between matches is copied.
RECURSIVE CStyleSubFrom(_, _)
CStyleSubFrom(s, i) ==
    IF i > Len(s) THEN <<>>
    ELSE LET m == CStyleMatchAt(s, i)
         IN  IF m.to = 0
             THEN << s[i] >> \o CStyleSubFrom(s, i + 1)
             ELSE Replace(s, i, m) \o CStyleSubFrom(s, m.to + 1)
CStyleStrip(s) == CStyleSubFrom(s, 1)

\* The matches sub() finds, as [from, to, group].
RECURSIVE CStyleMatchesFrom(_, _)
CStyleMatchesFrom(s, i) ==
    IF i > Len(s) THEN {}
    ELSE LET m == CStyleMatchAt(s, i)
         IN  IF m.to = 0
             THEN CStyleMatchesFrom(s, i + 1)
             ELSE {[from |-> i, to |-> m.to, group |-> m.group]}
                      \cup CStyleMatchesFrom(s, m.to + 1)
CStyleMatches(s) == CStyleMatchesFrom(s, 1)

\* ---------------------------------------------------------- tag comments
\* _HTML_COMMENT_RE (line 39): <!--.*?--> with DOTALL.
StartMarkerAt(s, i) ==
    /\ i + 3 <= Len(s)
    /\ SubSeq(s, i, i + 3) = <<60,33,45,45>>
EndMarkerAt(s, j) ==
    /\ j + 2 <= Len(s)
    /\ SubSeq(s, j, j + 2) = <<45,45,62>>

\* .*?--> without DOTALL: the span may not cross a line break.
RECURSIVE HtmlSpanEndSameLine(_, _)
HtmlSpanEndSameLine(s, j) ==
    IF j + 2 > Len(s) THEN 0
    ELSE IF EndMarkerAt(s, j) THEN j + 2
    ELSE IF s[j] = 10 THEN 0
    ELSE HtmlSpanEndSameLine(s, j + 1)

\* .*?--> from position j on: the first end marker, whatever precedes it; the
\* position of its last character, 0 when there is none.
RECURSIVE HtmlSpanEnd(_, _)
HtmlSpanEnd(s, j) ==
    IF j + 2 > Len(s) THEN 0
    ELSE IF EndMarkerAt(s, j) THEN j + 2
    ELSE HtmlSpanEnd(s, j + 1)

HtmlMatchAt(s, i) == IF StartMarkerAt(s, i) THEN HtmlSpanEnd(s, i + 4) ELSE 0

\* line 113: _HTML_COMMENT_RE.sub("", content)
RECURSIVE HtmlSubFrom(_, _)
HtmlSubFrom(s, i) ==
    IF i > Len(s) THEN <<>>
    ELSE IF HtmlMatchAt(s, i) = 0
         THEN << s[i] >> \o HtmlSubFrom(s, i + 1)
         ELSE HtmlSubFrom(s, HtmlMatchAt(s, i) + 1)
HtmlStrip(s) == HtmlSubFrom(s, 1)

\* ------------------------------------------------------------- tokenizer
\* A token of tokenize.tokenize: type, string, start and end as (row, column).
Tok(type, string, srow, scol, erow, ecol) ==
    [type |-> type, string |-> string, start |-> << srow, scol >>, end |-> << erow, ecol >>]

\* tokenize.tokenize on Python sources, as CPython's tokenizer answers: the
\* tokens it yields, the exception it raises if any, and whether it raises
\* when called (detect_encoding reads the coding cookie at once) or while the
\* tokens are consumed (the tokens are generated lazily).
PyFixtures ==
    <<
       \* 's = "a#b" # c\n'
       [content |-> <<115,32,61,32,34,97,35,98,34,32,35,32,99,10>>,
        tokens |-> <<
            Tok("ENCODING", <<117,116,102,45,56>>, 0, 0, 0, 0),
            Tok("NAME", <<115>>, 1, 0, 1, 1), Tok("OP", <<61>>, 1, 2, 1, 3),
            Tok("STRING", <<34,97,35,98,34>>, 1, 4, 1, 9),
            Tok("COMMENT", <<35,32,99>>, 1, 10, 1, 13), Tok("NEWLINE", <<10>>, 1, 13, 1, 14),
            Tok("ENDMARKER", <<>>, 2, 0, 2, 0) >>,
        raised |-> "none", at |-> "none"],
       \* 'def f():\n    "d#k"\n    return "r#s"  # t\n'
       [content |-> <<100,101,102,32,102,40,41,58,10,32,32,32,32,34,100,35,107,34,10,32,32,32,32,114,101,116,117,114,110,32,34,114,35,115,34,32,32,35,32,116,10>>,
        tokens |-> <<
            Tok("ENCODING", <<117,116,102,45,56>>, 0, 0, 0, 0),
            Tok("NAME", <<100,101,102>>, 1, 0, 1, 3), Tok("NAME", <<102>>, 1, 4, 1, 5),
            Tok("OP", <<40>>, 1, 5, 1, 6), Tok("OP", <<41>>, 1, 6, 1, 7),
            Tok("OP", <<58>>, 1, 7, 1, 8), Tok("NEWLINE", <<10>>, 1, 8, 1, 9),
            Tok("INDENT", <<32,32,32,32>>, 2, 0, 2, 4),
            Tok("STRING", <<34,100,35,107,34>>, 2, 4, 2, 9),
            Tok("NEWLINE", <<10>>, 2, 9, 2, 10),
            Tok("NAME", <<114,101,116,117,114,110>>, 3, 4, 3, 10),
            Tok("STRING", <<34,114,35,115,34>>, 3, 11, 3, 16),
            Tok("COMMENT", <<35,32,116>>, 3, 18, 3, 21), Tok("NEWLINE", <<10>>, 3, 21, 3, 22),
            Tok("DEDENT", <<>>, 4, 0, 4, 0), Tok("ENDMARKER", <<>>, 4, 0, 4, 0) >>,
        raised |-> "none", at |-> "none"],
       \* '"m#d"\nx = 1\n'
       [content |-> <<34,109,35,100,34,10,120,32,61,32,49,10>>,
        tokens |-> <<
            Tok("ENCODING", <<117,116,102,45,56>>, 0, 0, 0, 0),
            Tok("STRING", <<34,109,35,100,34>>, 1, 0, 1, 5),
            Tok("NEWLINE", <<10>>, 1, 5, 1, 6), Tok("NAME", <<120>>, 2, 0, 2, 1),
            Tok("OP", <<61>>, 2, 2, 2, 3), Tok("NUMBER", <<49>>, 2, 4, 2, 5),
            Tok("NEWLINE", <<10>>, 2, 5, 2, 6), Tok("ENDMARKER", <<>>, 3, 0, 3, 0) >>,
        raised |-> "none", at |-> "none"],
       \* 'x = 1\n"s#t"\n'
       [content |-> <<120,32,61,32,49,10,34,115,35,116,34,10>>,
        tokens |-> <<
            Tok("ENCODING", <<117,116,102,45,56>>, 0, 0, 0, 0),
            Tok("NAME", <<120>>, 1, 0, 1, 1), Tok("OP", <<61>>, 1, 2, 1, 3),
            Tok("NUMBER", <<49>>, 1, 4, 1, 5), Tok("NEWLINE", <<10>>, 1, 5, 1, 6),
            Tok("STRING", <<34,115,35,116,34>>, 2, 0, 2, 5),
            Tok("NEWLINE", <<10>>, 2, 5, 2, 6), Tok("ENDMARKER", <<>>, 3, 0, 3, 0) >>,
        raised |-> "none", at |-> "none"],
       \* 'if x:\n    y = 1\n"s#t"\n'
       [content |-> <<105,102,32,120,58,10,32,32,32,32,121,32,61,32,49,10,34,115,35,116,34,10>>,
        tokens |-> <<
            Tok("ENCODING", <<117,116,102,45,56>>, 0, 0, 0, 0),
            Tok("NAME", <<105,102>>, 1, 0, 1, 2), Tok("NAME", <<120>>, 1, 3, 1, 4),
            Tok("OP", <<58>>, 1, 4, 1, 5), Tok("NEWLINE", <<10>>, 1, 5, 1, 6),
            Tok("INDENT", <<32,32,32,32>>, 2, 0, 2, 4), Tok("NAME", <<121>>, 2, 4, 2, 5),
            Tok("OP", <<61>>, 2, 6, 2, 7), Tok("NUMBER", <<49>>, 2, 8, 2, 9),
            Tok("NEWLINE", <<10>>, 2, 9, 2, 10), Tok("DEDENT", <<>>, 3, 0, 3, 0),
            Tok("STRING", <<34,115,35,116,34>>, 3, 0, 3, 5),
            Tok("NEWLINE", <<10>>, 3, 5, 3, 6), Tok("ENDMARKER", <<>>, 4, 0, 4, 0) >>,
        raised |-> "none", at |-> "none"],
       \* '# only\n'
       [content |-> <<35,32,111,110,108,121,10>>,
        tokens |-> <<
            Tok("ENCODING", <<117,116,102,45,56>>, 0, 0, 0, 0),
            Tok("COMMENT", <<35,32,111,110,108,121>>, 1, 0, 1, 6),
            Tok("NL", <<10>>, 1, 6, 1, 7), Tok("ENDMARKER", <<>>, 2, 0, 2, 0) >>,
        raised |-> "none", at |-> "none"],
       \* 'x = (1 # c\n'
       [content |-> <<120,32,61,32,40,49,32,35,32,99,10>>,
        tokens |-> <<
            Tok("ENCODING", <<117,116,102,45,56>>, 0, 0, 0, 0),
            Tok("NAME", <<120>>, 1, 0, 1, 1), Tok("OP", <<61>>, 1, 2, 1, 3),
            Tok("OP", <<40>>, 1, 4, 1, 5), Tok("NUMBER", <<49>>, 1, 5, 1, 6),
            Tok("COMMENT", <<35,32,99>>, 1, 7, 1, 10), Tok("NL", <<10>>, 1, 10, 1, 11) >>,
        raised |-> "TokenError", at |-> "iteration"],
       \* '# c\ns = """a\n'
       [content |-> <<35,32,99,10,115,32,61,32,34,34,34,97,10>>,
        tokens |-> <<
            Tok("ENCODING", <<117,116,102,45,56>>, 0, 0, 0, 0),
            Tok("COMMENT", <<35,32,99>>, 1, 0, 1, 3), Tok("NL", <<10>>, 1, 3, 1, 4),
            Tok("NAME", <<115>>, 2, 0, 2, 1), Tok("OP", <<61>>, 2, 2, 2, 3) >>,
        raised |-> "TokenError", at |-> "iteration"],
       \* 'if x:\n        y = 1 # c\n    z = 2\n'
       [content |-> <<105,102,32,120,58,10,32,32,32,32,32,32,32,32,121,32,61,32,49,32,35,32,99,10,32,32,32,32,122,32,61,32,50,10>>,
        tokens |-> <<
            Tok("ENCODING", <<117,116,102,45,56>>, 0, 0, 0, 0),
            Tok("NAME", <<105,102>>, 1, 0, 1, 2), Tok("NAME", <<120>>, 1, 3, 1, 4),
            Tok("OP", <<58>>, 1, 4, 1, 5), Tok("NEWLINE", <<10>>, 1, 5, 1, 6),
            Tok("INDENT", <<32,32,32,32,32,32,32,32>>, 2, 0, 2, 8),
            Tok("NAME", <<121>>, 2, 8, 2, 9), Tok("OP", <<61>>, 2, 10, 2, 11),
            Tok("NUMBER", <<49>>, 2, 12, 2, 13), Tok("COMMENT", <<35,32,99>>, 2, 14, 2, 17),
            Tok("NEWLINE", <<10>>, 2, 17, 2, 18) >>,
        raised |-> "IndentationError", at |-> "iteration"],
       \* '# -*- coding: zz -*-\nx = 1 # c\n'
       [content |-> <<35,32,45,42,45,32,99,111,100,105,110,103,58,32,122,122,32,45,42,45,10,120,32,61,32,49,32,35,32,99,10>>,
        tokens |-> << >>,
        raised |-> "SyntaxError", at |-> "call"]
    >>

PyContents == {PyFixtures[k].content : k \in 1..Len(PyFixtures)}
Tokenize(s) == PyFixtures[CHOOSE k \in 1..Len(PyFixtures) : PyFixtures[k].content = s]

\* line 81 with every string taken for a docstring.
IsDocstringPositionAlways(prev_toktype) == TRUE

\* line 81: prev_toktype in (tokenize.INDENT, tokenize.NEWLINE, tokenize.ENCODING)
IsDocstringPosition(prev_toktype) == prev_toktype \in {"INDENT", "NEWLINE", "ENCODING"}

Spaces(n) == [k \in 1..n |-> 32]

\* lines 67-94: the loop over the tokens, from token k on, and the join.
RECURSIVE PyJoinFrom(_, _, _, _, _)
PyJoinFrom(tokens, k, prev_toktype, last_lineno, last_col) ==
    IF k > Len(tokens) THEN <<>>
    ELSE LET token == tokens[k]
             col   == IF token.start[1] > last_lineno THEN 0 ELSE last_col
             pad   == IF token.start[2] > col THEN Spaces(token.start[2] - col) ELSE <<>>
             piece == IF token.type = "COMMENT" THEN <<>>
                      ELSE IF token.type = "STRING" /\ IsDocstringPosition(prev_toktype)
                      THEN <<>>
                      ELSE token.string
             prev  == IF token.type \notin {"NL", "COMMENT"} THEN token.type
                      ELSE prev_toktype
         IN  pad \o piece \o PyJoinFrom(tokens, k + 1, prev, token.end[1], token.end[2])
\* lines 58-60: prev_toktype = tokenize.INDENT, last_lineno = -1, last_col = 0
PyJoin(tokens) == PyJoinFrom(tokens, 1, "INDENT", -1, 0)

\* line 65, re.sub(r'(?m)^ *#.*\n?', '', content): from a line start, spaces
\* and a '#' delete the line with its newline; any other line is copied.
RECURSIVE SkipSpaces(_, _)
SkipSpaces(s, j) == IF j <= Len(s) /\ s[j] = 32 THEN SkipSpaces(s, j + 1) ELSE j
RECURSIVE LineStripFrom(_, _)
LineStripFrom(s, i) ==
    IF i > Len(s) THEN <<>>
    ELSE LET j   == SkipSpaces(s, i)
             eol == LineEnd(s, i - 1)
             nxt == IF eol < Len(s) THEN eol + 1 ELSE eol
         IN  IF j <= Len(s) /\ s[j] = 35
             THEN LineStripFrom(s, nxt + 1)
             ELSE SubSeq(s, i, nxt) \o LineStripFrom(s, nxt + 1)
LineStrip(s) == LineStripFrom(s, 1)

\* lines 54-98: an exception of the tokenize call is a TokenError handled at
\* line 64 or anything else handled at line 96; an exception raised while the
\* loop consumes the tokens is handled at line 96, which returns content.
PythonStrip(s) ==
    LET t == Tokenize(s)
    IN  IF t.at = "call"
        THEN IF t.raised = "TokenError" THEN LineStrip(s) ELSE s
        ELSE IF t.raised # "none" THEN s
        ELSE PyJoin(t.tokens)

\* Dispatch on the extension as given.
remove_code_comments_case_sensitive(s, e) ==
    IF s = <<>> THEN <<>>
    ELSE IF e \in PythonExts THEN PythonStrip(s)
    ELSE IF e \in CStyleExts THEN CStyleStrip(s)
    ELSE IF e \in HtmlExts THEN HtmlStrip(s)
    ELSE s

\* lines 43-117
remove_code_comments(s, e) ==
    IF s = <<>> THEN <<>>
    ELSE IF Lower(e) \in PythonExts THEN PythonStrip(s)
    ELSE IF Lower(e) \in CStyleExts THEN CStyleStrip(s)
    ELSE IF Lower(e) \in HtmlExts THEN HtmlStrip(s)
    ELSE s

\* ---------------------------------------------------------------- inputs
\* The longest content, counted in pieces.
MaxPieces == 4
\* The longest content of the deep inputs of the lexical scan.
MaxCorePieces == 7

RECURSIVE Concat(_)
Concat(ps) == IF ps = <<>> THEN <<>> ELSE Head(ps) \o Concat(Tail(ps))
PieceSeqs(pieces, n) == {Concat(ps) : ps \in UNION {[1..k -> pieces] : k \in 0..n}}

\* Source text for the lexical scan:  "  '  \"  newline  //  /*  */  a
CPieces == { <<34>>, <<39>>, <<92,34>>, <<10>>, <<47,47>>, <<47,42>>, <<42,47>>, <<97>> }
\* Longer text over fewer pieces:  "  //  \  newline
CCorePieces == { <<34>>, <<47,47>>, <<92>>, <<10>> }
\* Markup:  <!--  -->  newline  a  -  >
HtmlPieces == { <<60,33,45,45>>, <<45,45,62>>, <<10>>, <<97>>, <<45>>, <<62>> }

CContents == PieceSeqs(CPieces, MaxPieces)
CCoreContents == PieceSeqs(CCorePieces, MaxCorePieces)
HtmlContents == PieceSeqs(HtmlPieces, MaxPieces)

\* The ext arguments: two per strategy, one of them not in lower case, and two
\* that no strategy lists.
CStyleArgs == { <<46,99>>, <<46,74,83>> }
HtmlArgs == { <<46,104,116,109,108>>, <<46,88,77,76>> }
PythonArgs == { <<46,112,121>>, <<46,80,89,87>> }
OtherArgs == { <<46,116,120,116>>, <<>> }

\* ---------------------------------------------------------------- calls
\* stripped = remove_code_comments(content, ext)
StripCall ==
    /\ spc = "called"
    /\ stripped' = remove_code_comments(content, ext)
    /\ spc' = "once"
    /\ UNCHANGED << task, scanVars, pdfVars, decodeVars, content, ext, restripped >>

\* restripped = remove_code_comments(stripped, ext), for a text whose
\* tokenization is known when the tokenizer strategy is the one dispatched.
StripAgain ==
    /\ spc = "once"
    /\ Lower(ext) \in PythonExts => stripped \in PyContents \cup {<<>>}
    /\ restripped' = remove_code_comments(stripped, ext)
    /\ spc' = "twice"
    /\ UNCHANGED << task, scanVars, pdfVars, decodeVars, content, ext, stripped >>

Strip == StripCall \/ StripAgain

InitStripWith(args, contents) ==
    /\ ScanIdle
    /\ DecodeIdle
    /\ PdfIdle
    /\ task = NoTask
    /\ ext \in args
    /\ content \in contents
    /\ stripped = <<>>
    /\ restripped = <<>>
    /\ spc = "called"

InitStrip ==
    \/ InitStripWith(CStyleArgs, CContents)
    \/ InitStripWith(HtmlArgs, HtmlContents)
    \/ InitStripWith(PythonArgs, PyContents \cup {<<>>})
    \/ InitStripWith(OtherArgs, HtmlContents \cup PyContents)

SpecStrip == InitStrip /\ [][Strip]_vars

\* The lexical scan on longer text.
InitStripDeep == InitStripWith({ <<46,99>> }, CCoreContents)

SpecStripDeep == InitStripDeep /\ [][Strip]_vars

\* C14 (as claimed): the lexical-scanning strategy is idempotent: stripping
\* the stripped text again, with the same extension, changes nothing.
C14_LexicalStripIdempotent ==
    (spc = "twice" /\ Lower(ext) \in CStyleExts) => restripped = stripped

\* C15: in the lexical-scanning strategy every quoted literal the scan
\* recognizes, escaped quotes included, is in the output unchanged, at its
\* place among the text that is kept, so no "//" or "/*" inside a literal is
\* deleted; what is removed is exactly the text matched as a comment, each
\* such match starting with "//" or "/*" and lying outside every literal.
CommentPositions(s) ==
    {p \in 1..Len(s) : \E m \in CStyleMatches(s) : m.group = 2 /\ m.from <= p /\ p <= m.to}
RECURSIVE Without(_, _, _)
Without(s, deleted, i) ==
    IF i > Len(s) THEN <<>>
    ELSE (IF i \in deleted THEN <<>> ELSE << s[i] >>) \o Without(s, deleted, i + 1)
C15_LiteralsUnchanged ==
    (spc \in {"once", "twice"} /\ Lower(ext) \in CStyleExts) =>
        LET deleted == CommentPositions(content)
        IN  /\ stripped = Without(content, deleted, 1)
            /\ \A m \in CStyleMatches(content) :
                  LET before == Cardinality({p \in deleted : p < m.from})
                  IN  IF m.group = 1
                      THEN /\ \A p \in m.from..m.to : p \notin deleted
                           /\ SubSeq(stripped, m.from - before, m.to - before)
                                  = SubSeq(content, m.from, m.to)
                      ELSE /\ content[m.from] = 47
                           /\ content[m.from + 1] \in {47, 42}
                           /\ \A l \in CStyleMatches(content) :
                                 l.group = 1 => (l.to < m.from \/ m.to < l.from)

\* A literal with "//" inside it was recognized and is in the output as it
\* was, while a comment outside it was deleted.
C15_Witness ==
    /\ spc = "once"
    /\ Lower(ext) \in CStyleExts
    /\ \E m \in CStyleMatches(content) :
          /\ m.group = 1
          /\ \E r \in (m.from + 1)..(m.to - 2) : content[r] = 47 /\ content[r + 1] = 47
    /\ CommentPositions(content) # {}
    /\ stripped # content
    /\ stripped # <<>>

\* A literal whose escaped quote is followed by "//" was recognized up to its
\* closing quote and returned whole.
C15_EscapedQuoteReached ==
    /\ spc = "once"
    /\ Lower(ext) \in CStyleExts
    /\ \E m \in CStyleMatches(content) :
          /\ m.group = 1
          /\ m.to = Len(content)
          /\ \E p \in m.from..(m.to - 2) :
                /\ content[p] = 92 /\ content[p + 1] = 34
                /\ \E r \in (p + 2)..(m.to - 2) : content[r] = 47 /\ content[r + 1] = 47
    /\ stripped = content

\* ------------------------------------------------ the tokenizer strategy
IsInfix(sub, s) ==
    \E i \in 0..(Len(s) - Len(sub)) : SubSeq(s, i + 1, i + Len(sub)) = sub
PythonCalled == spc \in {"once", "twice"} /\ Lower(ext) \in PythonExts /\ content # <<>>
TokensOf(s) == Tokenize(s).tokens
CommentTokens(s) == {k \in 1..Len(TokensOf(s)) : TokensOf(s)[k].type = "COMMENT"}
StringTokens(s) == {k \in 1..Len(TokensOf(s)) : TokensOf(s)[k].type = "STRING"}
TokenizationFailed(s) == Tokenize(s).raised # "none" /\ Tokenize(s).at = "iteration"

\* C16 (as claimed): with the tokenizer strategy no comment survives: no
\* comment token of the input is in the output.  (A comment whose text also
\* occurs inside a string token of the input is left out of the comparison.)
C16_NoCommentSurvives ==
    PythonCalled =>
        \A k \in CommentTokens(content) :
            (\A j \in StringTokens(content) :
                 ~IsInfix(TokensOf(content)[k].string, TokensOf(content)[j].string))
            => ~IsInfix(TokensOf(content)[k].string, stripped)

\* The same statement for the inputs the tokenizer accepts.
C16_NoCommentSurvivesTokenized ==
    (PythonCalled /\ Tokenize(content).raised = "none") =>
        \A k \in CommentTokens(content) :
            ~IsInfix(TokensOf(content)[k].string, stripped)

\* The type of the last token before token k that is neither NL nor COMMENT.
PreviousSignificant(tokens, k) ==
    LET before == {j \in 1..(k - 1) : tokens[j].type \notin {"NL", "COMMENT"}}
    IN  IF before = {} THEN "none"
        ELSE tokens[CHOOSE j \in before : \A l \in before : l <= j].type

\* C17: with the tokenizer strategy a string token that is not in docstring
\* position (the previous significant token is not a block start, not a
\* logical newline and not the start of the file) is in the output byte for
\* byte, also when it contains a comment marker.
C17_NonDocstringStringsKept ==
    PythonCalled =>
        \A k \in StringTokens(content) :
            PreviousSignificant(TokensOf(content), k) \notin {"INDENT", "NEWLINE", "ENCODING", "none"}
            => IsInfix(TokensOf(content)[k].string, stripped)

\* The tokenizer accepted a source with two strings holding '#': the one in
\* docstring position is gone from the output, the other is there whole, and
\* the comment is gone.
C17_Witness ==
    /\ PythonCalled
    /\ Tokenize(content).raised = "none"
    /\ stripped # content
    /\ CommentTokens(content) # {}
    /\ \E k, j \in StringTokens(content) :
          /\ 35 \in Range(TokensOf(content)[k].string)
          /\ 35 \in Range(TokensOf(content)[j].string)
          /\ PreviousSignificant(TokensOf(content), k) = "NAME"
          /\ PreviousSignificant(TokensOf(content), j) = "INDENT"
          /\ IsInfix(TokensOf(content)[k].string, stripped)
          /\ ~IsInfix(TokensOf(content)[j].string, stripped)

\* C18 (as claimed): when the tokenizer raises while its tokens are consumed,
\* the result is the line-based strip of the content.
C18_FallbackToLineStrip ==
    (PythonCalled /\ TokenizationFailed(content)) => stripped = LineStrip(content)

\* What the code returns then: the content unchanged.
C18_ContentUnchangedOnFailure ==
    (PythonCalled /\ TokenizationFailed(content)) => stripped = content

\* ------------------------------------------------------------- dispatch
Called == spc \in {"once", "twice"}

\* C19: for an extension no strategy lists the content is returned unchanged,
\* and the dispatch ignores the case of the extension: an extension whose
\* lower-case form is listed gets the strategy that lists it.
C19_IdentityAndCaseInsensitiveDispatch ==
    Called =>
        /\ Lower(ext) \notin (PythonExts \cup CStyleExts \cup HtmlExts) => stripped = content
        /\ (Lower(ext) \in CStyleExts /\ content # <<>>) => stripped = CStyleStrip(content)
        /\ (Lower(ext) \in HtmlExts /\ content # <<>>) => stripped = HtmlStrip(content)
        /\ (Lower(ext) \in PythonExts /\ content # <<>>) => stripped = PythonStrip(content)

\* Content with a tag comment in it came back unchanged for an extension no
\* strategy lists.
C19_Witness ==
    /\ Called
    /\ ext \in OtherArgs
    /\ HtmlStrip(content) # content
    /\ stripped = content

\* An extension given in upper case got the strategy of its lower-case form,
\* which deleted something.
C19_UpperCaseReached ==
    /\ Called
    /\ ext # Lower(ext)
    /\ Lower(ext) \in CStyleExts
    /\ stripped # content

\* ---------------------------------------------------------- tag comments
\* The start marker at position i has an end marker after it.
HasEndAfter(s, i) == \E j \in (i + 4)..Len(s) : EndMarkerAt(s, j)
\* The spans from a start marker to the nearest end marker after it, taken
\* from left to right from position k on, as << first, last >> positions.
RECURSIVE TagSpans(_, _)
TagSpans(s, k) ==
    LET starts == {i \in k..Len(s) : StartMarkerAt(s, i) /\ HasEndAfter(s, i)}
    IN  IF starts = {} THEN {}
        ELSE LET i == CHOOSE x \in starts : \A y \in starts : x <= y
                 j == CHOOSE x \in (i + 4)..Len(s) :
                          /\ EndMarkerAt(s, x)
                          /\ \A y \in (i + 4)..(x - 1) : ~EndMarkerAt(s, y)
             IN  {<< i, j + 2 >>} \cup TagSpans(s, j + 3)
TagCalled == Called /\ Lower(ext) \in HtmlExts /\ content # <<>>

\* C20: in the tag-comment strategy every span from a start marker "<!--" to
\* the nearest end marker "-->" after it is deleted, line breaks inside it or
\* not, and everything outside these spans is in the output unchanged; in
\* particular a start marker outside the spans, which has no end marker after
\* it, stays, and content in which no start marker has an end marker after it
\* is returned as it is.
C20_TagSpansDeleted ==
    TagCalled =>
        LET spans   == TagSpans(content, 1)
            deleted == {p \in 1..Len(content) : \E sp \in spans : sp[1] <= p /\ p <= sp[2]}
        IN  /\ stripped = Without(content, deleted, 1)
            /\ \A i \in 1..Len(content) :
                  (StartMarkerAt(content, i) /\ i \notin deleted)
                  => (~HasEndAfter(content, i) /\ \A p \in i..(i + 3) : p \notin deleted)
            /\ (\A i \in 1..Len(content) : StartMarkerAt(content, i) => ~HasEndAfter(content, i))
                  => stripped = content

\* A span with a line break in it was deleted and the start marker after it,
\* which has no end marker, is what remains.
C20_Witness ==
    /\ TagCalled
    /\ \E sp \in TagSpans(content, 1) : \E p \in sp[1]..sp[2] : content[p] = 10
    /\ stripped = <<60,33,45,45>>

\* ============================================================= pagination
\* PDFGenerator (pdf_generator.py).  A line is a sequence of character codes,
\* a page a sequence of lines; widths are in units of half a wide character.

\* lines 106 and 109: the cap on emitted pages and the two slices kept
MAX_PAGES == 60
FIRST_PAGES == 30
LAST_PAGES == 30

\* The largest lines_per_page and content_width of a generator.
MaxLinesPerPage == 2
MaxWidth == 2
\* The longest arbitrary content of a single file and of the first file of a
\* pair, in characters; the most files of a long document and the most lines
\* of its first file.
MaxContentLen == 2
MaxPairLen == 1
MaxLongFiles == 17
MaxLongLines == 3

\* line 144: f"--- File: {filename} ---"
HeaderLine(filename) == <<45,45,45,32,70,105,108,101,58,32>> \o filename \o <<32,45,45,45>>

\* line 157: content.replace('\t', '    ')
RECURSIVE ExpandTabs(_)
ExpandTabs(s) ==
    IF s = <<>> THEN <<>>
    ELSE (IF Head(s) = 9 THEN <<32,32,32,32>> ELSE << Head(s) >>) \o ExpandTabs(Tail(s))

\* line 158, content.splitlines(), for text whose only line boundary is the
\* newline: the lines without their newlines, no last empty line after a
\* final newline.
RECURSIVE SplitLinesFrom(_, _)
SplitLinesFrom(s, line) ==
    IF s = <<>> THEN (IF line = <<>> THEN <<>> ELSE << line >>)
    ELSE IF Head(s) = 10 THEN << line >> \o SplitLinesFrom(Tail(s), <<>>)
    ELSE SplitLinesFrom(Tail(s), Append(line, Head(s)))
SplitLines(s) == SplitLinesFrom(s, <<>>)

\* line 165: not l.strip()
Whitespace == {9, 10, 11, 12, 13, 32}
IsEmpty(l) == \A k \in 1..Len(l) : l[k] \in Whitespace

\* The loop of lines 164-172 with no blank line dropped.
RECURSIVE CleanedLinesKeepingRuns(_, _)
CleanedLinesKeepingRuns(lines, last_empty) ==
    IF lines = <<>> THEN <<>>
    ELSE IF IsEmpty(Head(lines))
         THEN << <<>> >> \o CleanedLinesKeepingRuns(Tail(lines), TRUE)
         ELSE << Head(lines) >> \o CleanedLinesKeepingRuns(Tail(lines), FALSE)

\* lines 162-172: cleaned_lines, from the lines left and last_empty
RECURSIVE CleanedLines(_, _)
CleanedLines(lines, last_empty) ==
    IF lines = <<>> THEN <<>>
    ELSE IF IsEmpty(Head(lines))
         THEN (IF last_empty THEN <<>> ELSE << <<>> >>) \o CleanedLines(Tail(lines), TRUE)
         ELSE << Head(lines) >> \o CleanedLines(Tail(lines), FALSE)

\* line 208, pdfmetrics.stringWidth(char, font_name, font_size): one unit for
\* a Latin-1 character, two for any other (a CJK character is twice as wide).
CharWidth(char) == IF char < 256 THEN 1 ELSE 2

\* The loop of lines 207-217 wrapping only after the line has overflowed.
RECURSIVE WrapLate(_, _, _, _)
WrapLate(rest, current_line_accum, current_width, content_width) ==
    IF rest = <<>>
    THEN IF current_line_accum # <<>> THEN << current_line_accum >> ELSE <<>>
    ELSE LET char == Head(rest)
             char_width == CharWidth(char)
         IN  IF current_width > content_width
             THEN << current_line_accum >>
                      \o WrapLate(Tail(rest), << char >>, char_width, content_width)
             ELSE WrapLate(Tail(rest), Append(current_line_accum, char),
                           current_width + char_width, content_width)

\* lines 199-222: the loop over the characters and the last piece
RECURSIVE Wrap(_, _, _, _)
Wrap(rest, current_line_accum, current_width, content_width) ==
    IF rest = <<>>
    THEN IF current_line_accum # <<>> THEN << current_line_accum >> ELSE <<>>
    ELSE LET char == Head(rest)
             char_width == CharWidth(char)
         IN  IF current_width + char_width > content_width
             THEN << current_line_accum >>
                      \o Wrap(Tail(rest), << char >>, char_width, content_width)
             ELSE Wrap(Tail(rest), Append(current_line_accum, char),
                       current_width + char_width, content_width)

\* lines 191-222
_wrap_line(line) ==
    IF line = <<>> THEN << <<>> >> ELSE Wrap(line, <<>>, 0, pdf.content_width)

\* The append of a line with the test for a full page made after it and one
\* line too late.
AppendLineLate(p, line) ==
    IF p.current_lines_count > pdf.lines_per_page
    THEN [p EXCEPT !.pages = Append(p.pages, p.current_page_lines),
                   !.current_page_lines = << line >>,
                   !.current_lines_count = 1]
    ELSE [p EXCEPT !.current_page_lines = Append(p.current_page_lines, line),
                   !.current_lines_count = p.current_lines_count + 1]

\* lines 148-153 and 178-183: a full page is closed, then the line is appended
AppendLine(p, line) ==
    IF p.current_lines_count >= pdf.lines_per_page
    THEN [p EXCEPT !.pages = Append(p.pages, p.current_page_lines),
                   !.current_page_lines = << line >>,
                   !.current_lines_count = 1]
    ELSE [p EXCEPT !.current_page_lines = Append(p.current_page_lines, line),
                   !.current_lines_count = p.current_lines_count + 1]

\* _paginate returns value to line 97 of generate; fi stays as the number of
\* files it had started.
PagReturn(value) ==
    /\ pag' = [PagOff EXCEPT !.pc = "returned", !.fi = pag.fi]
    /\ gen' = [gen EXCEPT !.pc = "check", !.pages = value]

\* The step to the next file without the cancel check.
PagFileNoCheck ==
    /\ pag.pc = "file"
    /\ IF pag.fi = Len(pdf.file_contents)
       THEN pag' = [pag EXCEPT !.pc = "last"] /\ UNCHANGED gen
       ELSE /\ pag' = [pag EXCEPT
                  !.pc = "header",
                  !.fi = pag.fi + 1,
                  !.wrapped = _wrap_line(HeaderLine(pdf.file_contents[pag.fi + 1][1]))]
            /\ UNCHANGED gen
    /\ UNCHANGED << task, scanVars, textVars, pdf, cancel_requested >>

\* lines 139-145: the next file, the cancel check, the wrapped header line
PagFile ==
    /\ pag.pc = "file"
    /\ IF pag.fi = Len(pdf.file_contents)
       THEN pag' = [pag EXCEPT !.pc = "last"] /\ UNCHANGED gen
       ELSE IF cancel_requested
       THEN PagReturn(<<>>)
       ELSE /\ pag' = [pag EXCEPT
                  !.pc = "header",
                  !.fi = pag.fi + 1,
                  !.wrapped = _wrap_line(HeaderLine(pdf.file_contents[pag.fi + 1][1]))]
            /\ UNCHANGED gen
    /\ UNCHANGED << task, scanVars, textVars, pdf, cancel_requested >>

\* lines 147-153: one line of the wrapped header
PagHeaderLine ==
    /\ pag.pc = "header"
    /\ pag.wrapped # <<>>
    /\ pag' = [AppendLine(pag, Head(pag.wrapped)) EXCEPT !.wrapped = Tail(pag.wrapped)]
    /\ UNCHANGED << task, scanVars, textVars, pdf, cancel_requested, gen >>

\* lines 157-172: tabs, splitlines, cleaned_lines
PagClean ==
    /\ pag.pc = "header"
    /\ pag.wrapped = <<>>
    /\ pag' = [pag EXCEPT
          !.pc = "lines",
          !.cleaned_lines =
              CleanedLines(SplitLines(ExpandTabs(pdf.file_contents[pag.fi][2])), FALSE)]
    /\ UNCHANGED << task, scanVars, textVars, pdf, cancel_requested, gen >>

\* lines 174-176: the next cleaned line is wrapped, or the file is done
PagWrap ==
    /\ pag.pc = "lines"
    /\ pag.wrapped = <<>>
    /\ IF pag.cleaned_lines = <<>>
       THEN pag' = [pag EXCEPT !.pc = "file"]
       ELSE pag' = [pag EXCEPT !.wrapped = _wrap_line(Head(pag.cleaned_lines)),
                               !.cleaned_lines = Tail(pag.cleaned_lines)]
    /\ UNCHANGED << task, scanVars, textVars, pdf, cancel_requested, gen >>

\* The append of a content line that loses the line which finds the page full.
PagLineDropping ==
    /\ pag.pc = "lines"
    /\ pag.wrapped # <<>>
    /\ pag' = IF pag.current_lines_count >= pdf.lines_per_page
              THEN [pag EXCEPT !.pages = Append(pag.pages, pag.current_page_lines),
                               !.current_page_lines = <<>>,
                               !.current_lines_count = 0,
                               !.wrapped = Tail(pag.wrapped)]
              ELSE [AppendLine(pag, Head(pag.wrapped)) EXCEPT !.wrapped = Tail(pag.wrapped)]
    /\ UNCHANGED << task, scanVars, textVars, pdf, cancel_requested, gen >>

\* lines 177-183: one line of the wrapped content line
PagLine ==
    /\ pag.pc = "lines"
    /\ pag.wrapped # <<>>
    /\ pag' = [AppendLine(pag, Head(pag.wrapped)) EXCEPT !.wrapped = Tail(pag.wrapped)]
    /\ UNCHANGED << task, scanVars, textVars, pdf, cancel_requested, gen >>

\* The end of _paginate with the open page appended whatever it holds.
PagLastAlways ==
    /\ pag.pc = "last"
    /\ PagReturn(Append(pag.pages, pag.current_page_lines))
    /\ UNCHANGED << task, scanVars, textVars, pdf, cancel_requested >>

\* lines 186-189: the last page, return pages
PagLast ==
    /\ pag.pc = "last"
    /\ PagReturn(IF pag.current_page_lines # <<>>
                 THEN Append(pag.pages, pag.current_page_lines)
                 ELSE pag.pages)
    /\ UNCHANGED << task, scanVars, textVars, pdf, cancel_requested >>

Paginate ==
    \/ PagFile
    \/ PagHeaderLine
    \/ PagClean
    \/ PagWrap
    \/ PagLine
    \/ PagLast

\* -------------------------------------------------------------- generate
GenReturn(total, emitted) ==
    [gen EXCEPT !.pc = "returned", !.ret = << total, emitted >>]

\* line 97: pages = self._paginate(file_contents, check_cancel)
GenCall ==
    /\ gen.pc = "call"
    /\ gen' = [gen EXCEPT !.pc = "paginate"]
    /\ pag' = [PagOff EXCEPT !.pc = "file"]
    /\ UNCHANGED << task, scanVars, textVars, pdf, cancel_requested >>

\* lines 99-100
GenCheck ==
    /\ gen.pc = "check"
    /\ IF cancel_requested
       THEN gen' = [GenReturn(0, 0) EXCEPT !.observed = TRUE]
       ELSE gen' = [gen EXCEPT !.pc = "select"]
    /\ UNCHANGED << task, scanVars, textVars, pdf, cancel_requested, pag >>

\* A selection that keeps the first and the last pages of every document.
SelectAlwaysCut(pages) ==
    SubSeq(pages, 1, IF Len(pages) < FIRST_PAGES THEN Len(pages) ELSE FIRST_PAGES)
        \o SubSeq(pages, IF Len(pages) < LAST_PAGES THEN 1 ELSE Len(pages) - LAST_PAGES + 1,
                  Len(pages))

\* lines 106-109
Select(pages) ==
    IF Len(pages) <= MAX_PAGES THEN pages
    ELSE SubSeq(pages, 1, FIRST_PAGES) \o SubSeq(pages, Len(pages) - LAST_PAGES + 1, Len(pages))

\* lines 103-113: total_pages, selected_pages, and the canvas, which holds
\* the document in memory until save()
GenSelect ==
    /\ gen.pc = "select"
    /\ gen' = [gen EXCEPT !.pc = "page_check",
                          !.total_pages = Len(gen.pages),
                          !.selected_pages = Select(gen.pages),
                          !.i = 0,
                          !.canvas = <<>>]
    /\ UNCHANGED << task, scanVars, textVars, pdf, cancel_requested, pag >>

\* A cancel check that saves what was drawn before it returns.
GenPageCheckSaving ==
    /\ gen.pc = "page_check"
    /\ IF gen.i = Len(gen.selected_pages)
       THEN gen' = [gen EXCEPT !.pc = "save"]
       ELSE IF cancel_requested
       THEN gen' = [GenReturn(0, 0) EXCEPT !.observed = TRUE, !.saved = TRUE]
       ELSE gen' = [gen EXCEPT !.pc = "page_draw"]
    /\ UNCHANGED << task, scanVars, textVars, pdf, cancel_requested, pag >>

\* lines 115-117: the next selected page, if any, and the cancel check
GenPageCheck ==
    /\ gen.pc = "page_check"
    /\ IF gen.i = Len(gen.selected_pages)
       THEN gen' = [gen EXCEPT !.pc = "save"]
       ELSE IF cancel_requested
       THEN gen' = [GenReturn(0, 0) EXCEPT !.observed = TRUE]
       ELSE gen' = [gen EXCEPT !.pc = "page_draw"]
    /\ UNCHANGED << task, scanVars, textVars, pdf, cancel_requested, pag >>

\* A header that shows the page's number among all pages.
HeaderNumberOriginal(i) ==
    IF gen.total_pages > MAX_PAGES /\ i >= FIRST_PAGES
    THEN gen.total_pages - Len(gen.selected_pages) + i + 1
    ELSE i + 1

\* line 122: page_num = i + 1
HeaderNumber(i) == i + 1

\* lines 120-129: _draw_header(c, page_num), _draw_content(c, page_lines),
\* showPage()
GenPageDraw ==
    /\ gen.pc = "page_draw"
    /\ gen' = [gen EXCEPT
          !.pc = "page_check",
          !.i = gen.i + 1,
          !.canvas = Append(gen.canvas, [page_num |-> HeaderNumber(gen.i),
                                         lines |-> gen.selected_pages[gen.i + 1]])]
    /\ UNCHANGED << task, scanVars, textVars, pdf, cancel_requested, pag >>

\* lines 131-132: c.save() writes the output file; return the counts
GenSave ==
    /\ gen.pc = "save"
    /\ gen' = [GenReturn(gen.total_pages, Len(gen.selected_pages)) EXCEPT !.saved = TRUE]
    /\ UNCHANGED << task, scanVars, textVars, pdf, cancel_requested, pag >>

Generate ==
    \/ GenCall
    \/ GenCheck
    \/ GenSelect
    \/ GenPageCheck
    \/ GenPageDraw
    \/ GenSave

\* The caller's cancel predicate becomes true while generate runs, and stays
\* true.
RequestCancel ==
    /\ ~cancel_requested
    /\ gen.pc \notin {"off", "returned"}
    /\ cancel_requested' = TRUE
    /\ UNCHANGED << task, scanVars, textVars, pdf, pag, gen >>

PdfStep == Paginate \/ Generate \/ RequestCancel

\* ---------------------------------------------------------------- inputs
\* Characters of file content: a, space, tab, newline and a wide character.
ContentChars == {97, 32, 9, 10, 20013}
Contents(n) == UNION {[1..k -> ContentChars] : k \in 0..n}
\* file names f and g
FileF == <<102>>
FileG == <<103>>

\* Longer contents:  a,,,a   a,,a,b   a,b,c   abcde   a<wide>a   <sp>,<tab>,a
\* a,<sp>,,   (a comma standing for a newline).
FixtureContents ==
    { <<97,10,10,10,97>>, <<97,10,10,97,10,98>>, <<97,10,98,10,99>>,
      <<97,98,99,100,101>>, <<97,20013,97>>, <<32,10,9,10,97>>,
      <<97,10,32,10,10>> }
\* Contents of the second file of a pair:  empty, a, a newline, a,,a
SecondContents == { <<>>, <<97>>, <<10>>, <<97,10,10,97>> }

\* No file, one file with any short content or a longer one, or two files.
SmallFileContents ==
    {<<>>}
      \cup {<< << FileF, c >> >> : c \in Contents(MaxContentLen) \cup FixtureContents}
      \cup {<< << FileF, c >>, << FileG, d >> >> : c \in Contents(MaxPairLen), d \in SecondContents}

\* n lines of two characters, the first character c, each ended by a newline.
LongContent(c, n) ==
    [k \in 1..(3 * n) |-> IF k % 3 = 1 THEN c ELSE IF k % 3 = 2 THEN 97 + k \div 3 ELSE 10]
\* m files with different one-character names: the first of n lines, each
\* other of three lines, no line occurring twice.
LongFiles(m, n) ==
    [k \in 1..m |-> << << 48 + k >>, LongContent(48 + k, IF k = 1 THEN n ELSE 3) >>]
LongFileContents == {LongFiles(m, n) : m \in 0..MaxLongFiles, n \in 0..MaxLongLines}

InitPdfWith(inputs, lpp, widths) ==
    /\ ScanIdle
    /\ DecodeIdle
    /\ StripIdle
    /\ \E fc \in inputs, l \in lpp, w \in widths :
          pdf = [file_contents |-> fc, lines_per_page |-> l, content_width |-> w]
    /\ cancel_requested = FALSE
    /\ pag = PagOff
    /\ gen = [GenOff EXCEPT !.pc = "call"]
    /\ task = NoTask

InitPdf == InitPdfWith(SmallFileContents, 1..MaxLinesPerPage, 1..MaxWidth)
SpecPdf == InitPdf /\ [][PdfStep]_vars

\* Documents of many pages: one line to the page, the lines wide enough to
\* hold a delimiter line.
InitPdfLong == InitPdfWith(LongFileContents, {1}, {15})
SpecPdfLong == InitPdfLong /\ [][PdfStep]_vars

\* ------------------------------------------------------ claims on pages
\* The pages _paginate has closed or returned.
PagesSoFar == IF pag.pc \in {"off", "returned"} THEN gen.pages ELSE pag.pages

\* C21: whatever lines have been appended, no page _paginate has produced
\* holds more than lines_per_page lines, and the open page buffer holds no
\* more than lines_per_page lines either (current_lines_count is its length).
C21_PagesWithinLinesPerPage ==
    /\ \A k \in 1..Len(PagesSoFar) : Len(PagesSoFar[k]) <= pdf.lines_per_page
    /\ Len(pag.current_page_lines) <= pdf.lines_per_page
    /\ pag.current_lines_count = Len(pag.current_page_lines)

\* A full page was closed and the open buffer is full again, with lines
\* still to append.
C21_Witness ==
    /\ pdf.lines_per_page >= 2
    /\ pag.pages # <<>>
    /\ Len(pag.current_page_lines) = pdf.lines_per_page
    /\ pag.wrapped # <<>>

\* The summed measured width of the characters of a line.
RECURSIVE LineWidth(_)
LineWidth(l) == IF l = <<>> THEN 0 ELSE CharWidth(Head(l)) + LineWidth(Tail(l))
\* The lines _paginate hands to _wrap_line for file k: the header line and
\* the cleaned lines.
LogicalLines(k) ==
    << HeaderLine(pdf.file_contents[k][1]) >>
        \o CleanedLines(SplitLines(ExpandTabs(pdf.file_contents[k][2])), FALSE)
EveryCharFits(line) == \A n \in 1..Len(line) : CharWidth(line[n]) <= pdf.content_width

\* C22: for every line given to _wrap_line in which each single character is
\* no wider than the content width, every physical line _wrap_line returns
\* has a summed character width of at most the content width; the pieces
\* waiting to be appended are such lines.
C22_WrappedLinesFit ==
    /\ pag.pc \in {"header", "lines"} =>
          \A k \in 1..pag.fi : \A n \in 1..Len(LogicalLines(k)) :
              LET line == LogicalLines(k)[n]
              IN  EveryCharFits(line) =>
                      \A m \in 1..Len(_wrap_line(line)) :
                          LineWidth(_wrap_line(line)[m]) <= pdf.content_width
    /\ (\A k \in 1..Len(pdf.file_contents) : \A n \in 1..Len(LogicalLines(k)) :
            EveryCharFits(LogicalLines(k)[n]))
       => \A m \in 1..Len(pag.wrapped) : LineWidth(pag.wrapped[m]) <= pdf.content_width

\* A content line with a wide character between narrow ones was wrapped into
\* pieces, the wide character filling a physical line by itself.
C22_Witness ==
    /\ pag.pc = "lines"
    /\ pdf.content_width = 2
    /\ Len(pag.wrapped) = 3
    /\ pag.wrapped[2] = <<20013>>
    /\ \A m \in 1..3 : LineWidth(pag.wrapped[m]) <= pdf.content_width

\* The physical lines of the first n logical lines of a sequence, each
\* logical line's pieces together and in order.
RECURSIVE WrappedLines(_)
WrappedLines(lines) ==
    IF lines = <<>> THEN <<>> ELSE _wrap_line(Head(lines)) \o WrappedLines(Tail(lines))
\* The physical lines of files 1..k, file by file.
RECURSIVE PhysicalLines(_)
PhysicalLines(k) ==
    IF k = 0 THEN <<>> ELSE PhysicalLines(k - 1) \o WrappedLines(LogicalLines(k))
IsPrefix(s, t) == Len(s) <= Len(t) /\ SubSeq(t, 1, Len(s)) = s
\* _paginate returned because it saw the cancel request.
PagCancelled == cancel_requested /\ gen.pages = <<>>

\* C23: the lines of the pages, concatenated in page order, are for each file
\* in input order its delimiter line and then its lines after tab expansion
\* and blank-run collapsing, each of these as the pieces _wrap_line cut it
\* into, next to each other, in order, and giving back the line when joined:
\* the closed pages and the open page are always the beginning of that
\* text, and the pages _paginate returns are all of it.
C23_PagesAreTheLinesInOrder ==
    /\ pag.pc \in {"file", "last"} =>
          Concat(pag.pages) \o pag.current_page_lines = PhysicalLines(pag.fi)
    /\ pag.pc \in {"header", "lines"} =>
          IsPrefix(Concat(pag.pages) \o pag.current_page_lines, PhysicalLines(pag.fi))
    /\ gen.pc = "check" =>
          \/ PagCancelled
          \/ /\ Concat(gen.pages) = PhysicalLines(Len(pdf.file_contents))
             /\ \A k \in 1..Len(pdf.file_contents) : \A n \in 1..Len(LogicalLines(k)) :
                    Concat(_wrap_line(LogicalLines(k)[n])) = LogicalLines(k)[n]

\* Two files were paginated two lines to the page, the second file's
\* delimiter line starting in the middle of a page and its content, the
\* lines a, blank, blank, a, following it as a, blank, a.
C23_Witness ==
    /\ gen.pc = "check"
    /\ Len(pdf.file_contents) = 2
    /\ pdf.lines_per_page = 2
    /\ pdf.content_width = 2
    /\ pdf.file_contents[1][2] = <<97>>
    /\ pdf.file_contents[2][2] = <<97,10,10,97>>
    /\ Len(gen.pages) = 10
    /\ gen.pages[5] = << <<97>>, <<45,45>> >>
    /\ gen.pages[9] = << <<45>>, <<97>> >>
    /\ gen.pages[10] = << <<>>, <<97>> >>

AllLines == PhysicalLines(Len(pdf.file_contents))
Min(a, b) == IF a <= b THEN a ELSE b
\* ceil(n / l)
PagesFor(n, l) == (n + l - 1) \div l

\* C24: when _paginate returns the pages of n physical lines at L lines to
\* the page, there are exactly ceil(n / L) pages, page k holds the lines
\* (k-1)L+1 .. min(kL, n), so that every page but the last holds exactly L
\* lines, and the last page is not empty.
C24_PagesFilledInOrder ==
    (gen.pc = "check" /\ ~PagCancelled) =>
        LET n == Len(AllLines)
            L == pdf.lines_per_page
        IN  /\ Len(gen.pages) = PagesFor(n, L)
            /\ \A k \in 1..Len(gen.pages) :
                   /\ gen.pages[k] = SubSeq(AllLines, (k - 1) * L + 1, Min(k * L, n))
                   /\ k < Len(gen.pages) => Len(gen.pages[k]) = L
            /\ gen.pages # <<>> => gen.pages[Len(gen.pages)] # <<>>

\* Two files of 9 and 8 physical lines were paginated two lines to the page:
\* 9 pages, the last of one line.
C24_Witness ==
    /\ gen.pc = "check"
    /\ pdf.lines_per_page = 2
    /\ Len(pdf.file_contents) = 2
    /\ Len(WrappedLines(LogicalLines(1))) = 9
    /\ Len(WrappedLines(LogicalLines(2))) = 8
    /\ Len(gen.pages) = 9
    /\ Len(gen.pages[8]) = 2
    /\ Len(gen.pages[9]) = 1

\* The lines of file k before cleaning (lines 157-158).
RawLines(k) == SplitLines(ExpandTabs(pdf.file_contents[k][2]))
\* The lines a collapse keeps: the non-blank lines and the first line of each
\* run of blank lines.
KeptLines(lines) ==
    {n \in 1..Len(lines) : ~IsEmpty(lines[n]) \/ n = 1 \/ ~IsEmpty(lines[n - 1])}
NthKept(lines, j) ==
    CHOOSE n \in KeptLines(lines) : Cardinality({m \in KeptLines(lines) : m <= n}) = j
Collapsed(lines) ==
    [j \in 1..Cardinality(KeptLines(lines)) |->
        IF IsEmpty(lines[NthKept(lines, j)]) THEN <<>> ELSE lines[NthKept(lines, j)]]
IsSuffix(s, t) == Len(s) <= Len(t) /\ SubSeq(t, Len(t) - Len(s) + 1, Len(t)) = s

\* C25: in the cleaned lines of a file every run of blank (empty or
\* whitespace-only) lines is one empty line, a single blank line too, the
\* non-blank lines keep their content and order, and no two consecutive
\* cleaned lines are blank.
C25_BlankRunsCollapsed ==
    pag.pc = "lines" =>
        LET cleaned == Collapsed(RawLines(pag.fi))
        IN  /\ IsSuffix(pag.cleaned_lines, cleaned)
            /\ pag.wrapped = <<>> \/ IsSuffix(pag.wrapped, _wrap_line(cleaned[Len(cleaned) - Len(pag.cleaned_lines)]))
            /\ \A n \in 1..Len(pag.cleaned_lines) - 1 :
                   ~(IsEmpty(pag.cleaned_lines[n]) /\ IsEmpty(pag.cleaned_lines[n + 1]))

\* The lines a, blank, blank, a were cleaned to a, empty, a.
C25_Witness ==
    /\ pag.pc = "lines"
    /\ RawLines(pag.fi) = << <<97>>, <<>>, <<>>, <<97>> >>
    /\ pag.cleaned_lines = << <<97>>, <<>>, <<97>> >>

\* A run of whitespace-only lines at the start of a file was cleaned to one
\* empty line.
C25_WhitespaceRunReached ==
    /\ pag.pc = "lines"
    /\ RawLines(pag.fi) = << <<32>>, <<32,32,32,32>>, <<97>> >>
    /\ pag.cleaned_lines = << <<>>, <<97>> >>

\* --------------------------------------------------- claims on generate
\* The pages drawn on the canvas, in the order drawn.
Emitted == [k \in 1..Len(gen.canvas) |-> gen.canvas[k].lines]
\* generate went through c.save() and returned.
Completed == gen.pc = "returned" /\ gen.saved

\* C26: a document of at most 60 pages is emitted whole and in order, the
\* emitted count being the total; of a longer one exactly 60 pages are
\* emitted, its first 30 and then its last 30, none of them twice; the call
\* returns (total, emitted).
C26_SelectionRule ==
    Completed =>
        LET total == Len(gen.pages)
        IN  /\ gen.ret = << total, Len(Emitted) >>
            /\ total <= 60 => Emitted = gen.pages
            /\ total > 60 =>
                  /\ Len(Emitted) = 60
                  /\ \A k \in 1..30 :
                        /\ Emitted[k] = gen.pages[k]
                        /\ Emitted[30 + k] = gen.pages[total - 30 + k]
                  /\ Cardinality({k : k \in 1..30} \cup {total - 30 + k : k \in 1..30}) = 60

\* A document of 65 pages was emitted as 60 pages, the 31st of them being its
\* 36th page.
C26_Witness ==
    /\ Completed
    /\ gen.ret = << 65, 60 >>
    /\ Emitted[30] = gen.pages[30]
    /\ Emitted[31] = gen.pages[36]
    /\ Emitted[31] # gen.pages[31]

\* A document of 60 pages was emitted whole.
C26_ShortDocumentReached ==
    /\ Completed
    /\ gen.ret = << 60, 60 >>
    /\ Emitted = gen.pages

\* C27: the number in the header of an emitted page is its position, counted
\* from 1, among the emitted pages, not its position in the whole document.
C27_HeaderNumbersEmittedPosition ==
    \A k \in 1..Len(gen.canvas) :
        /\ gen.canvas[k].page_num = k
        /\ gen.canvas[k].lines = Select(gen.pages)[k]

\* Of a document of 65 pages the 31st emitted page is the 36th of the
\* document and carries the number 31.
C27_Witness ==
    /\ Len(gen.pages) = 65
    /\ Len(gen.canvas) >= 31
    /\ gen.canvas[31].lines = gen.pages[36]
    /\ gen.canvas[31].lines # gen.pages[31]
    /\ gen.canvas[31].page_num = 31

\* C28: if the cancel predicate becomes true at any point of a call of
\* generate, up to the moment the call returns, the call returns (0, 0).
\* (The predicate becomes true only during a call and stays true, so at the
\* return it is true exactly if it became true during the call.)
C28_CancelledCallReturnsZero ==
    (gen.pc = "returned" /\ cancel_requested) => gen.ret = << 0, 0 >>

\* What generate does: a request that arrives before the cancel check of the
\* last selected page is observed at the next check and gives (0, 0); the
\* call returns real counts only through c.save().
C28_ObservedCancelReturnsZero ==
    /\ gen.observed => (gen.pc = "returned" /\ gen.ret = << 0, 0 >> /\ cancel_requested)
    /\ (gen.pc = "returned" /\ ~gen.observed) => gen.saved

\* The request arrived after the last cancel check and the call completed
\* with the counts of a document of at least one page.
C28_LateCancelReached ==
    /\ Completed
    /\ cancel_requested
    /\ gen.ret[1] >= 1
    /\ gen.ret = << Len(gen.pages), Len(gen.canvas) >>

\* C29: a call of generate that returns (0, 0) because it observed the
\* cancel request has not written the output file; the file is written only
\* by the call that has drawn every selected page, and that call returns the
\* real counts.
C29_NoFileOnCancel ==
    /\ gen.observed => (~gen.saved /\ gen.ret = << 0, 0 >>)
    /\ gen.saved =>
          /\ gen.pc = "returned"
          /\ ~gen.observed
          /\ Emitted = gen.selected_pages
          /\ gen.selected_pages = Select(gen.pages)
          /\ gen.ret = << Len(gen.pages), Len(gen.selected_pages) >>

\* The request was observed at the cancel check of a page after other pages
\* had been drawn: (0, 0) and no file.
C29_Witness ==
    /\ gen.pc = "returned"
    /\ gen.observed
    /\ Len(gen.canvas) >= 1
    /\ Len(gen.canvas) < Len(gen.selected_pages)
    /\ ~gen.saved
    /\ gen.ret = << 0, 0 >>

\* The pages the call holds: the list _paginate builds and generate keeps.
PagesHeld == Len(PagesSoFar)

\* C30: at every point of a call of generate at most 60 pages are held in
\* memory, the first 30 and a window of the latest 30, whatever the number
\* of pages of the document.
C30_AtMostSixtyPagesHeld == PagesHeld <= 60

\* What generate does: _paginate returns every page of the document, and
\* the selection is cut from that list.
C30_AllPagesHeld ==
    (gen.pc \in {"select", "page_check", "page_draw", "save"}) =>
        /\ gen.pages # <<>> => Concat(gen.pages) = AllLines
        /\ gen.pc # "select" => gen.total_pages = Len(gen.pages)

\* All 65 pages of a document are held while its 60 selected pages are drawn.
C30_AllPagesHeldReached ==
    /\ gen.pc = "page_draw"
    /\ PagesHeld = 65
    /\ Len(gen.selected_pages) = 60

\* ------------------------------------------------ claims on the scan's locks
\* The workers that have counted a file and not yet tested or appended it:
\* they are between the two critical sections of lock.
BetweenSections == {w \in Threads : workers[w].pc = "validate"}

\* C35: every valid file, and only a valid file, increments the scanned
\* counter and is appended to the result collection in one critical section
\* of one lock, so that the counter equals the number of entries of the
\* collection whenever the lock is free.  (A critical section is one step of
\* the model: the lock is free in every state.)
C35_CounterEqualsResultLength ==
    mpc # "off" => scanned_count = Len(valid_files)

\* What the worker does: every regular file is counted in a first critical
\* section, a valid one is appended in a second; the counter is never less
\* than the number of entries, and is the number of regular files met.
C35_CounterCountsEveryFile ==
    mpc # "off" => scanned_count >= Len(valid_files) + Cardinality(BetweenSections)

\* A scan has returned with more files counted than collected.
C35_InvalidFileCountedReached ==
    /\ mpc = "returned"
    /\ ~cancel_flag
    /\ result # <<>>
    /\ scanned_count > Len(valid_files)

\* ------------------------------------------- claims on the queue accounting
\* The workers that hold a dequeued item they have not yet marked done.
Holders == {w \in Threads : Holding(w)}
\* The directories queued or held.
PendingDirs ==
    {q[k].path : k \in {n \in 1..Len(q) : ~q[n].none}}
        \cup {workers[w].item.path : w \in {v \in Holders : ~workers[v].item.none}}

\* C37: every item put on the queue is in the queue, held by the worker that
\* dequeued it, or marked done, and a held item is marked done once, on the
\* normal, the cancel and the traversal-error path alike: the unfinished
\* count is the number of queued and held items, never negative; it is zero
\* only when no directory is queued or being processed; and without
\* cancellation q.join() is not passed while a directory that a complete
\* walk reaches has not been handed to os.scandir.
C37_QueueAccounting ==
    mpc # "off" =>
        /\ unfinished = Len(q) + Cardinality(Holders)
        /\ unfinished >= 0
        /\ unfinished = 0 => PendingDirs = {}
        /\ (root_exists /\ mpc \in AfterJoin /\ ~cancel_flag) =>
              /\ PendingDirs = {}
              /\ \A d \in AllDirs : d \in DOMAIN listed \/ d \in errors

\* A scan of the tree with unlistable directories has returned: every
\* directory and every stop signal was marked done, through the normal and
\* the traversal-error path.
C37_Witness ==
    /\ mpc = "returned"
    /\ ~cancel_flag
    /\ errors # {}
    /\ DOMAIN listed # {}
    /\ AllExited
    /\ unfinished = 0
    /\ q = <<>>

\* A cancelled scan has returned with the item that met the cancellation
\* marked done.
C37_CancelPathReached ==
    /\ mpc = "returned"
    /\ cancel_flag
    /\ AllExited
    /\ unfinished = Len(q)

\* ------------------------------------- claims on cancelling the pagination
\* _paginate returned before it had started every file.
PagStopped == pag.pc = "returned" /\ pag.fi < Len(pdf.file_contents)

\* C36: _paginate reads the cancel predicate at the start of each file and
\* nowhere else; when it is true there, production stops and the empty
\* sequence is returned, the pages built so far being dropped, and generate
\* then draws and saves nothing and returns (0, 0).
C36_CancelCheckedPerFile ==
    /\ [](PagStopped =>
            /\ cancel_requested
            /\ gen.pages = <<>>
            /\ gen.canvas = <<>>
            /\ ~gen.saved
            /\ gen.pc = "returned" => gen.ret = << 0, 0 >>)
    /\ [][/\ (pag.pc = "file" /\ pag.fi < Len(pdf.file_contents) /\ cancel_requested)
              => (pag'.pc = "returned" /\ pag'.fi = pag.fi /\ gen'.pages = <<>>)
          /\ pag.pc \in {"header", "lines"} => pag'.pc \in {"header", "lines", "file"}]_vars

\* The request arrived while the first of two files was paginated; the
\* check at the start of the second file dropped the first file's pages and
\* generate returned (0, 0).
C36_Witness ==
    /\ PagStopped
    /\ pag.fi = 1
    /\ Len(pdf.file_contents) = 2
    /\ gen.pc = "returned"
    /\ gen.observed
    /\ gen.ret = << 0, 0 >>
    /\ gen.canvas = <<>>

\* ==================================================== the generation task
\* MainApplication._start_generation, _process_task, _stop_generation and
\* _set_running (gui.py), with the scan, the pagination and the rendering
\* above as the calls they make.  stop_requested and cancel_requested are
\* both self.stop_event.is_set(), the predicate the task passes to them.

\* The most runs of the task in one session of the application.
MaxRuns == 2

\* pdf_generator.py lines 16-28: A4 in millimetres, the margins in
\* millimetres, the line pitch in points.
PageWidthMm == 210
PageHeightMm == 297
MarginTopMm == 25
MarginBottomMm == 20
MarginLeftMm == 20
MarginRightMm == 20
Leading == 11
FontSize == 9

\* The budget computed from the lengths taken as points, without the factor mm.
LinesPerPageInPoints(height, top, bottom, leading) ==
    (height - top - bottom) \div leading

\* lines 22-35: content_height = page_height - margin_top - margin_bottom and
\* lines_per_page = int(content_height / leading), a millimetre being
\* 72 / 25.4 points
LinesPerPage(height, top, bottom, leading) ==
    ((height - top - bottom) * 720) \div (254 * leading)

\* line 21: content_width = page_width - margin_left - margin_right, in the
\* unit of CharWidth: the width of a narrow character, half the font size.
ContentWidth(width, left, right, size) ==
    ((width - left - right) * 720 * 2) \div (254 * size)

\* The project trees a task scans, and the text read_file_content and
\* remove_code_comments give for a file: a letter, or a blank and a newline.
TaskTrees == {2}
FileTexts == { <<97>>, <<32,10>> }

\* The frame of scan_parallel: entered (pc "begin") or left (pc "off").
ScanFrame(t, mw, exists, pc) ==
    /\ tree' = t
    /\ max_workers' = mw
    /\ custom_excluded_dirs' = {}
    /\ custom_excluded_exts' = {}
    /\ root_exists' = exists
    /\ has_callback' = (pc = "begin")
    /\ clock' = StartTime
    /\ mpc' = pc
    /\ mi' = 0
    /\ result' = <<>>
    /\ q' = <<>>
    /\ unfinished' = 0
    /\ cancel_flag' = FALSE
    /\ valid_files' = <<>>
    /\ scanned_count' = 0
    /\ last_callback_time' = 0
    /\ workers' = IF pc = "begin" THEN [w \in 1..mw |-> IdleWorker] ELSE <<>>
    /\ calls' = <<>>
    /\ listed' = [p \in {} |-> 0]
    /\ errors' = {}
    /\ saw_cancel' = FALSE
    /\ admitted' = <<>>

\* check_cancel = lambda: self.stop_event.is_set()   (line 1048)
check_cancel == stop_requested

\* lines 1009-1045, the command of generate_btn: a disabled button gives no
\* command; _set_running(True), a new stop_event, the task thread started.
StartGeneration ==
    /\ ~task.running
    /\ task.runs < MaxRuns
    /\ task' = [NoTask EXCEPT !.pc = "begin", !.running = TRUE,
                              !.threads = task.threads + 1,
                              !.runs = task.runs + 1,
                              !.registrations = task.registrations]
    /\ stop_requested' = FALSE
    /\ cancel_requested' = FALSE
    /\ pdf' = [file_contents |-> <<>>, lines_per_page |-> 1, content_width |-> 1]
    /\ pag' = PagOff
    /\ gen' = GenOff
    /\ ScanFrame(1, 1, TRUE, "off")
    /\ UNCHANGED textVars

\* lines 1002-1007, the command of stop_btn, which is enabled while a task
\* runs and disabled by its first press.
StopGeneration ==
    /\ task.running
    /\ ~stop_requested
    /\ stop_requested' = TRUE
    /\ cancel_requested' = TRUE
    /\ UNCHANGED << task, textVars, pdf, pag, gen, inputVars, clock, mpc, mi, result, q,
                    unfinished, cancel_flag, valid_files, scanned_count,
                    last_callback_time, workers, calls, listed, errors, saw_cancel,
                    admitted >>

\* The scan variables but the stop event.
scanFrameVars ==
    << inputVars, clock, mpc, mi, result, q, unfinished, cancel_flag, valid_files,
       scanned_count, last_callback_time, workers, calls, listed, errors, saw_cancel,
       admitted >>

\* except Exception as e (lines 1162-1170): the cancelled outcome is logged,
\* any other is shown in an error dialog.
Raise(t, message) ==
    [t EXCEPT !.pc = "finally",
              !.outcome = IF message = "cancelled" THEN "cancelled" ELSE "error",
              !.dialog = IF message = "cancelled" THEN "none" ELSE "error"]

\* lines 1052-1067: scanner.scan(check_cancel, scan_callback) is entered; the
\* project directory was a directory at line 1019 and may be gone by now.
TaskScanCall ==
    /\ task.pc = "begin"
    /\ task' = [task EXCEPT !.pc = "scan"]
    /\ \E t \in TaskTrees, mw \in 1..MaxWorkers, exists \in BOOLEAN :
          ScanFrame(t, mw, exists, "begin")
    /\ UNCHANGED << textVars, pdfVars, stop_requested >>

\* line 1067: scan returns the file list.
TaskScanReturn ==
    /\ task.pc = "scan"
    /\ mpc = "returned"
    /\ task' = [task EXCEPT !.pc = "scan_check", !.files = result,
                            !.scan_cancelled = cancel_flag]
    /\ ScanFrame(1, 1, TRUE, "off")
    /\ UNCHANGED << textVars, pdfVars, stop_requested >>

\* The step after the scan without the cancel check.
TaskScanCheckSkipped ==
    /\ task.pc = "scan_check"
    /\ task' = [task EXCEPT !.pc = "files_check"]
    /\ UNCHANGED << scanVars, textVars, pdfVars >>

\* lines 1069-1070
TaskScanCheck ==
    /\ task.pc = "scan_check"
    /\ task' = IF check_cancel THEN Raise(task, "cancelled")
               ELSE [task EXCEPT !.pc = "files_check"]
    /\ UNCHANGED << scanVars, textVars, pdfVars >>

\* lines 1076-1106: no file is an error; else the result slots and one
\* submitted read task per file
TaskFilesCheck ==
    /\ task.pc = "files_check"
    /\ task' = IF task.files = <<>> THEN Raise(task, "no files")
               ELSE [task EXCEPT
                        !.pc = "collect",
                        !.results = [i \in 1..Len(task.files) |-> <<>>],
                        !.futures = [i \in 1..Len(task.files) |->
                                        [state |-> "pending", content |-> <<>>,
                                         ok |-> FALSE]]]
    /\ UNCHANGED << scanVars, textVars, pdfVars >>

\* path.name
Name(path) == path[Len(path)]

\* lines 1086-1097, the read task of file i on a pool thread: skipped on
\* cancellation, else read and stripped, ok if the content is not blank.
ReadWorker(i) ==
    /\ task.pc \in {"collect", "finally"}
    /\ i \in 1..Len(task.futures)
    /\ task.futures[i].state = "pending"
    /\ IF check_cancel
       THEN task' = [task EXCEPT !.futures[i].state = "done", !.skipped = TRUE]
       ELSE \E c \in FileTexts :
               task' = [task EXCEPT !.futures[i] =
                           [state |-> "done", content |-> c, ok |-> ~IsEmpty(c)]]
    /\ UNCHANGED << scanVars, textVars, pdfVars >>

\* The read tasks that have not finished.
Pending(futures) == { i \in 1..Len(futures) : futures[i].state = "pending" }

\* f.cancel() for every future: the tasks S that no pool thread has started
\* never run, a task that runs or has finished is left alone.
CancelFutures(futures, S) ==
    [i \in 1..Len(futures) |->
        IF i \in S THEN [futures[i] EXCEPT !.state = "cancelled"] ELSE futures[i]]

\* The result put in the first free slot, the order of completion.
StoreAtNextFree(results, idx, entry) ==
    LET free == CHOOSE k \in 1..Len(results) :
                    /\ results[k] = <<>>
                    /\ \A j \in 1..(k - 1) : results[j] # <<>>
    IN  [results EXCEPT ![free] = entry]

\* line 1119: results[idx] = (name, content)
Store(results, idx, entry) == [results EXCEPT ![idx] = entry]

\* The loop without the cancel check.
TaskCollectUnchecked ==
    /\ task.pc = "collect"
    /\ IF Len(task.order) = Len(task.files)
       THEN task' = [task EXCEPT
                        !.pc = "construct",
                        !.file_contents = SelectSeq(task.results, LAMBDA r : r # <<>>)]
       ELSE \E i \in 1..Len(task.futures) :
               /\ task.futures[i].state = "done"
               /\ task' = [task EXCEPT
                          !.futures[i].state = "yielded",
                          !.order = Append(task.order, i),
                          !.results = IF task.futures[i].ok
                                      THEN Store(task.results, i,
                                                 << Name(task.files[i]),
                                                    task.futures[i].content >>)
                                      ELSE task.results]
    /\ UNCHANGED << scanVars, textVars, pdfVars >>

\* lines 1108-1128: as_completed yields a finished read task; on cancellation
\* the futures are cancelled and the task is cancelled; else an ok result
\* goes to the slot of its index; after the last one the slots that are not
\* None are the file list.
TaskCollect ==
    /\ task.pc = "collect"
    /\ IF Len(task.order) = Len(task.files)
       THEN task' = [task EXCEPT
                        !.pc = "construct",
                        !.file_contents = SelectSeq(task.results, LAMBDA r : r # <<>>)]
       ELSE \E i \in 1..Len(task.futures) :
               /\ task.futures[i].state = "done"
               /\ IF check_cancel
                  THEN \E S \in SUBSET Pending(task.futures) :
                          task' = [Raise(task, "cancelled") EXCEPT
                                      !.futures = CancelFutures(task.futures, S)]
                  ELSE task' = [task EXCEPT
                          !.futures[i].state = "yielded",
                          !.order = Append(task.order, i),
                          !.results = IF task.futures[i].ok
                                      THEN Store(task.results, i,
                                                 << Name(task.files[i]),
                                                    task.futures[i].content >>)
                                      ELSE task.results]
    /\ UNCHANGED << scanVars, textVars, pdfVars >>

\* line 1140-1141: PDFGenerator(output_path, name, version), whose __init__
\* registers the font if a font file is found (pdf_generator.py lines 30 and
\* 52-89) and computes the layout, and generate(file_contents, check_cancel)
\* is entered.
TaskConstruct ==
    /\ task.pc = "construct"
    /\ \E found \in BOOLEAN :
          task' = [task EXCEPT
              !.pc = "generate",
              !.invoked = TRUE,
              !.registrations = IF found THEN task.registrations + 1
                                ELSE task.registrations,
              !.lines_per_page =
                  LinesPerPage(PageHeightMm, MarginTopMm, MarginBottomMm, Leading)]
    /\ pdf' = [file_contents |-> task.file_contents,
               lines_per_page |->
                   LinesPerPage(PageHeightMm, MarginTopMm, MarginBottomMm, Leading),
               content_width |->
                   ContentWidth(PageWidthMm, MarginLeftMm, MarginRightMm, FontSize)]
    /\ pag' = PagOff
    /\ gen' = [GenOff EXCEPT !.pc = "call"]
    /\ UNCHANGED << scanVars, textVars, cancel_requested >>

\* lines 1141-1160: generate has returned; on cancellation the task is
\* cancelled, else the success dialog is scheduled.
TaskGenCheck ==
    /\ task.pc = "generate"
    /\ gen.pc = "returned"
    /\ task' = IF check_cancel THEN Raise(task, "cancelled")
               ELSE [task EXCEPT !.pc = "finally", !.outcome = "success",
                                 !.dialog = "info"]
    /\ UNCHANGED << scanVars, textVars, pdfVars >>

\* lines 1104 and 1171-1172: the pool is left when its running tasks have
\* finished; finally: self.after(0, lambda: self._set_running(False)); the
\* thread ends.
TaskFinally ==
    /\ task.pc = "finally"
    /\ Pending(task.futures) = {}
    /\ task' = [task EXCEPT !.pc = "finished", !.scheduled = TRUE,
                            !.threads = task.threads - 1]
    /\ UNCHANGED << scanVars, textVars, pdfVars >>

\* lines 1185-1194, run by the event loop: _set_running(False) enables the
\* generate button.
SetRunningFalse ==
    /\ task.scheduled
    /\ task' = [task EXCEPT !.scheduled = FALSE, !.running = FALSE,
                            !.pc = IF task.pc = "finished" THEN "idle" ELSE task.pc]
    /\ UNCHANGED << scanVars, textVars, pdfVars >>

TaskThread ==
    \/ TaskScanCall
    \/ TaskScanReturn
    \/ TaskScanCheck
    \/ TaskFilesCheck
    \/ \E i \in 1..3 : ReadWorker(i)
    \/ TaskCollect
    \/ TaskConstruct
    \/ TaskGenCheck
    \/ TaskFinally

\* The calls of the task run while it waits for them.
TaskStep ==
    \/ TaskThread
    \/ (task.pc = "scan" /\ ScanStep)
    \/ (task.pc = "generate" /\ (Paginate \/ Generate))
    \/ SetRunningFalse

TaskNext == StartGeneration \/ StopGeneration \/ TaskStep

\* The application is started: no task, the scan and generate not running.
InitTask ==
    /\ ScanIdle
    /\ DecodeIdle
    /\ StripIdle
    /\ PdfIdle
    /\ task = NoTask

SpecTask == InitTask /\ [][TaskNext]_vars

\* The task thread with its pool, the main thread and the workers of the scan,
\* the calls of the generator and the event loop are scheduled; the user need
\* not press a button.
TaskFairness ==
    /\ WF_vars(TaskThread)
    /\ WF_vars(task.pc = "scan" /\ Main)
    /\ \A w \in 1..MaxWorkers : WF_vars(task.pc = "scan" /\ w \in Threads /\ Worker(w))
    /\ WF_vars(task.pc = "generate" /\ (Paginate \/ Generate))
    /\ WF_vars(SetRunningFalse)

SpecTaskFair == SpecTask /\ TaskFairness

\* At most one task thread exists, and only while the application is in the
\* running state.
TaskThreadsBounded == task.threads \in {0, 1} /\ (task.threads = 1 => task.running)

\* ------------------------------------------------------------------- C32
\* The list of files has been assembled by the read phase of this run.
Assembled == task.pc = "construct" \/ task.invoked

\* C32: with the A4 page height, the top margin of 25 mm, the bottom margin
\* of 20 mm and the line pitch of 11 points, the lines-per-page budget a
\* constructed generator paginates with is at least 50.
C32_AtLeastFiftyLinesPerPage ==
    task.invoked =>
        /\ task.lines_per_page >= 50
        /\ pdf.lines_per_page = task.lines_per_page

C32_Witness ==
    /\ task.invoked
    /\ task.lines_per_page = 64
    /\ pag.pc = "lines"

\* ------------------------------------------------------------------- C31
\* The indices of the scan list whose read task gave a content that is not
\* blank, in scan order.
NonBlank ==
    SelectSeq([i \in 1..Len(task.files) |-> i],
              LAMBDA i : ~IsEmpty(task.futures[i].content))

\* The scan list restricted to those files, each with its name and content.
ScanOrderContents ==
    [k \in 1..Len(NonBlank) |->
        << Name(task.files[NonBlank[k]]), task.futures[NonBlank[k]].content >>]

\* C31: the list the read phase hands to the paginator is, for every order
\* in which the read tasks complete, the scan list restricted to the files
\* whose content is not empty or blank, each once and at its scan position.
C31_ReadPhaseKeepsScanOrder ==
    Assembled =>
        /\ task.file_contents = ScanOrderContents
        /\ (task.invoked => pdf.file_contents = task.file_contents)

C31_Witness ==
    /\ task.pc = "construct"
    /\ Len(task.files) = 3
    /\ task.order = <<3, 1, 2>>
    /\ Len(task.file_contents) = 2
    /\ IsEmpty(task.futures[2].content)

\* ------------------------------------------------------------------- C33
\* The outcome of a run agrees with what its scan returned.
OutcomeAgrees ==
    /\ (task.scan_cancelled =>
           (task.files = <<>> /\ task.outcome \in {"none", "cancelled"}
              /\ task.dialog = "none"))
    /\ (task.outcome = "error" =>
           (task.files = <<>> /\ ~task.scan_cancelled /\ task.dialog = "error"))
    /\ (task.outcome = "cancelled" => (task.dialog = "none" /\ stop_requested))

\* A step of the task that reads the stop flag set.
CheckSeesStop ==
    /\ ((task.pc \in {"scan_check", "generate"} /\ task'.pc # task.pc /\ stop_requested)
           => (task'.outcome = "cancelled" /\ task'.dialog = "none"))
    /\ ((task.pc = "collect" /\ stop_requested /\ Len(task.order) < Len(task.files))
           => (task'.order = task.order /\ task'.pc # "construct"))

\* C33: a run whose scan returned empty because of cancellation ends
\* cancelled, never as the failure "no files found" and never as success;
\* a cancel check that finds the stop flag set ends the run cancelled with
\* no error dialog, and with the flag set no read result is taken; the only
\* failure is an empty scan that was not cancelled.
C33_CancelledIsNotAFailure == []OutcomeAgrees /\ [][CheckSeesStop]_vars

C33_Witness ==
    /\ task.scan_cancelled
    /\ task.files = <<>>
    /\ task.outcome = "cancelled"
    /\ task.pc = "finished"

\* A scan that was not cancelled and found nothing is reported as an error.
C33_EmptyScanReported ==
    /\ ~task.scan_cancelled
    /\ task.outcome = "error"
    /\ ~stop_requested

\* ------------------------------------------------------------------- C34
\* C34: across any number of constructions of the generator the font is
\* registered at most once.
C34_FontRegisteredAtMostOnce == task.registrations <= 1

\* A construction registers the font found, once, in every run.
C34_RegisteredOncePerConstruction ==
    /\ task.registrations <= task.runs
    /\ (task.registrations = task.runs => (task.runs = 0 \/ task.invoked))

C34_SecondRegistrationReached ==
    /\ task.runs = 2
    /\ task.registrations = 2
    /\ task.outcome = "success"

\* ------------------------------------------------------------------- C38
\* C38: if a read task skipped its file because it saw the stop flag, the
\* run ends cancelled and the generator is never constructed or called in
\* that run; the stop flag stays set for the rest of the run.
C38_SkippedFileNeverGenerated ==
    task.skipped =>
        /\ stop_requested
        /\ ~task.invoked
        /\ task.outcome \in {"none", "cancelled"}
        /\ (task.pc \in {"finally", "finished", "idle"} => task.outcome = "cancelled")
        /\ gen.pc = "off"
        /\ ~gen.saved

C38_Witness ==
    /\ task.skipped
    /\ task.pc = "finished"
    /\ task.outcome = "cancelled"
    /\ Len(task.order) = 2
    /\ task.futures[3].state = "done"

\* ------------------------------------------------------------------- C39
\* C39: whenever a run ends with the cancelled outcome, that run has not
\* saved the document.
C39_NoArtifactWhenCancelled == task.outcome = "cancelled" => ~gen.saved

\* A run reported as cancelled has saved the document only if generate
\* never read the stop flag set and returned the page counts; a successful
\* run has always saved it.
C39_CancelledAfterSaveOnlyWhenLate ==
    /\ (task.outcome = "cancelled" /\ gen.saved) =>
           /\ gen.pc = "returned"
           /\ ~gen.observed
           /\ gen.ret = << gen.total_pages, Len(gen.selected_pages) >>
           /\ stop_requested
    /\ task.outcome = "success" => gen.saved

C39_SavedThenCancelledReached ==
    /\ task.outcome = "cancelled"
    /\ gen.saved
    /\ gen.ret = <<1, 1>>
    /\ task.pc = "finished"

\* ------------------------------------------------------------------- C40
\* C40: every started task finishes: _set_running(False) is scheduled and
\* run, the generate button is enabled again, also for a run stopped during
\* the scan.
C40_EveryTaskFinishes == task.running ~> ~task.running

\* The scan of the running task is blocked at q.join() for ever.
BlockedInScan ==
    /\ task.running
    /\ task.pc = "scan"
    /\ mpc = "join"
    /\ unfinished > 0
    /\ AllExited

\* A task that is not stopped during its scan finishes, and a stopped scan
\* that does not finish is blocked at the join.
C40_FinishesUnlessBlockedInScan == task.running ~> (~task.running \/ BlockedInScan)

\* Between _set_running(True) and _set_running(False) no second task is
\* started: one task thread at most, and _set_running(False) is scheduled
\* only by a task thread that ends.
C40_NoSecondStartWhileRunning ==
    /\ [](task.threads \in {0, 1} /\ (task.threads = 1 => task.running)
            /\ (task.scheduled => (task.running /\ task.pc = "finished")))
    /\ [][task.running => task'.runs = task.runs]_vars

C40_BlockedInScanReached == BlockedInScan /\ stop_requested /\ ~task.scheduled

====
